---- MODULE Spec2Model ----
(***************************************************************************)
(* Request lifecycle of the Perplexity MCP server: the tool dispatcher,    *)
(* performChatCompletion / performSearch with their timeout timer and      *)
(* cancellation signal, the response validation and the text they return.  *)
(*                                                                         *)
(* A JavaScript string is a sequence of pieces (TLA+ strings); string      *)
(* concatenation is \o.  A JavaScript value is a record tagged by k.       *)
(***************************************************************************)
EXTENDS Integers, Sequences, FiniteSets, TLC

(***************************************************************************)
(* Bounds of the model.                                                    *)
(***************************************************************************)
\* the invocations of one run, concurrent or one after the other
NumCalls == 2
\* the longest citations array of a response body
MaxCitations == 2
\* the longest content, in pieces, given to stripThinkingTokens
MaxTextLen == 5
\* the longest messages array given to validateMessages
MaxMessages == 3
\* the longest results array of a search body
MaxResults == 2
\* the HTTP requests of one run, concurrent or one after the other
NumRequests == 2
\* the HTTP requests of one run of the session manager
NumVisits == 3

(***************************************************************************)
(* JavaScript values.                                                      *)
(***************************************************************************)
JUndef == [k |-> "undefined"]
JNull == [k |-> "null"]
JStr(s) == [k |-> "string", v |-> s]
JNum(n) == [k |-> "number", v |-> n]
JBool(b) == [k |-> "boolean", v |-> b]
JArr(a) == [k |-> "array", v |-> a]
JObj(o) == [k |-> "object", v |-> o]
NaN == [k |-> "NaN"]

IsString(j) == j.k = "string"
IsArray(j) == j.k = "array"
IsNaN(j) == j.k = "NaN"

\* typeof j
TypeOf(j) ==
  CASE j.k \in {"null", "array", "object"} -> "object"
    [] j.k = "NaN" -> "number"
    [] OTHER -> j.k

\* ToBoolean(j), as in !j and j || d
Truthy(j) ==
  CASE j.k \in {"undefined", "null"} -> FALSE
    [] j.k = "string" -> Len(j.v) > 0
    [] j.k = "number" -> j.v # 0
    [] j.k = "NaN" -> FALSE
    [] j.k = "boolean" -> j.v
    [] OTHER -> TRUE

\* j.key : a property an object does not have, and any property of a
\* primitive or of an array, reads as undefined
Get(j, key) ==
  IF j.k = "object" /\ key \in DOMAIN j.v THEN j.v[key] ELSE JUndef

\* `${n}` for a number
NumStr(n) == IF IsNaN(n) THEN "NaN" ELSE ToString(n.v)

\* an Error object, and `${error}` for it
Err(name, message) == [name |-> name, message |-> message]
ErrStr(e) == <<e.name, ": ">> \o e.message

\* the outcome of a step that returns a value or throws
Returned(v) == [ok |-> TRUE, value |-> v]
Thrown(message) == [ok |-> FALSE, message |-> message]

\* `${j}` for any value: Array.prototype.toString joins with ","
RECURSIVE TemplateStr(_)
RECURSIVE JoinFrom(_, _)
JoinFrom(a, i) ==
  IF i > Len(a) THEN <<>>
  ELSE (IF i > 1 THEN <<",">> ELSE <<>>)
       \o (IF a[i].k \in {"undefined", "null"} THEN <<>> ELSE TemplateStr(a[i]))
       \o JoinFrom(a, i + 1)
TemplateStr(j) ==
  CASE j.k = "string" -> j.v
    [] j.k \in {"number", "NaN"} -> <<NumStr(j)>>
    [] j.k = "boolean" -> <<IF j.v THEN "true" ELSE "false">>
    [] j.k = "array" -> JoinFrom(j.v, 1)
    [] j.k = "object" -> <<"[object Object]">>
    [] OTHER -> <<j.k>>

(***************************************************************************)
(* parseInt(s, 10) on a string given character by character.               *)
(***************************************************************************)
DigitChars == <<"0", "1", "2", "3", "4", "5", "6", "7", "8", "9">>
IsDigit(ch) == \E d \in 1..10 : DigitChars[d] = ch
DigitVal(ch) == (CHOOSE d \in 1..10 : DigitChars[d] = ch) - 1
IsWhite(ch) == ch \in {" ", "\n", "\t"}

RECURSIVE SkipWhite(_)
SkipWhite(s) ==
  IF s # <<>> /\ IsWhite(Head(s)) THEN SkipWhite(Tail(s)) ELSE s

\* the value of the longest prefix of digits of s, continuing from acc;
\* seen tells whether a digit was read
RECURSIVE ReadDigits(_, _, _)
ReadDigits(s, acc, seen) ==
  IF s # <<>> /\ IsDigit(Head(s))
  THEN ReadDigits(Tail(s), acc * 10 + DigitVal(Head(s)), TRUE)
  ELSE [value |-> acc, seen |-> seen]

parseInt(s) ==
  LET t == SkipWhite(s)
      neg == t # <<>> /\ Head(t) = "-"
      u == IF t # <<>> /\ Head(t) \in {"-", "+"} THEN Tail(t) ELSE t
      r == ReadDigits(u, 0, FALSE)
  IN  IF ~r.seen THEN NaN
      ELSE JNum(IF neg THEN 0 - r.value ELSE r.value)

\* a budget fixed when the module is loaded, with the setting unset
ReadTimeoutCached(env) == JNum(300000)

\* parseInt(process.env.PERPLEXITY_TIMEOUT_MS || "300000", 10)
DefaultTimeoutChars == <<"3", "0", "0", "0", "0", "0">>
ReadTimeout(env) ==
  parseInt(IF Truthy(env) THEN env.v ELSE DefaultTimeoutChars)

\* a timer armed without its delay
TimerDelayDropped(ms) == 0

\* the delay setTimeout(cb, ms) waits: Node replaces a delay that is not
\* in 1..2^31-1 (NaN included) by 1
MaxTimerDelay == 2147483647
TimerDelay(ms) ==
  IF ~IsNaN(ms) /\ ms.v >= 1 /\ ms.v <= MaxTimerDelay THEN ms.v ELSE 1

(***************************************************************************)
(* validateMessages: "ok", or the message of the Error it throws.          *)
(***************************************************************************)
NoError == <<>>

InvalidMessageAt(msg, i) ==
  IF ~Truthy(msg) \/ TypeOf(msg) # "object"
  THEN <<"Invalid message at index ", ToString(i), ": must be an object">>
  ELSE IF ~Truthy(Get(msg, "role")) \/ TypeOf(Get(msg, "role")) # "string"
  THEN <<"Invalid message at index ", ToString(i), ": 'role' must be a string">>
  ELSE IF Get(msg, "content").k \in {"undefined", "null"}
          \/ TypeOf(Get(msg, "content")) # "string"
  THEN <<"Invalid message at index ", ToString(i), ": 'content' must be a string">>
  ELSE NoError

\* a loop that reports the position counted from 1
RECURSIVE ValidateFromOneBased(_, _)
ValidateFromOneBased(arr, from) ==
  IF from > Len(arr) THEN NoError
  ELSE IF InvalidMessageAt(arr[from], from) # NoError
       THEN InvalidMessageAt(arr[from], from)
       ELSE ValidateFromOneBased(arr, from + 1)

\* the for loop over messages[i], i = from-1 .. length-1
RECURSIVE ValidateFrom(_, _)
ValidateFrom(arr, from) ==
  IF from > Len(arr) THEN NoError
  ELSE IF InvalidMessageAt(arr[from], from - 1) # NoError
       THEN InvalidMessageAt(arr[from], from - 1)
       ELSE ValidateFrom(arr, from + 1)

\* a message for a non-array that leaves the tool out
validateMessagesUnnamed(messages, toolName) ==
  IF ~IsArray(messages)
  THEN <<"Invalid arguments", ": 'messages' must be an array">>
  ELSE ValidateFrom(messages.v, 1)

validateMessages(messages, toolName) ==
  IF ~IsArray(messages)
  THEN <<"Invalid arguments for ", toolName, ": 'messages' must be an array">>
  ELSE ValidateFrom(messages.v, 1)

(***************************************************************************)
(* stripThinkingTokens: content.replace(/<think>[\s\S]*?<\/think>/g, '')   *)
(* followed by trim().  The tags are single pieces of the text.            *)
(***************************************************************************)
OpenTag == "<think>"
CloseTag == "</think>"

\* the index of the first piece equal to p at or after from, 0 if none
RECURSIVE IndexOf(_, _, _)
IndexOf(s, p, from) ==
  IF from > Len(s) THEN 0
  ELSE IF s[from] = p THEN from
  ELSE IndexOf(s, p, from + 1)

\* the index of the last piece equal to p at or after from, 0 if none
RECURSIVE LastIndexOf(_, _, _)
LastIndexOf(s, p, from) ==
  IF from > Len(s) THEN 0
  ELSE IF LastIndexOf(s, p, from + 1) # 0 THEN LastIndexOf(s, p, from + 1)
  ELSE IF s[from] = p THEN from
  ELSE 0

\* a greedy pattern, <think>[\s\S]*</think>
RECURSIVE ReplaceThinkGreedy(_)
ReplaceThinkGreedy(s) ==
  IF s = <<>> THEN <<>>
  ELSE IF Head(s) = OpenTag /\ LastIndexOf(s, CloseTag, 2) # 0
       THEN ReplaceThinkGreedy(SubSeq(s, LastIndexOf(s, CloseTag, 2) + 1, Len(s)))
       ELSE <<Head(s)>> \o ReplaceThinkGreedy(Tail(s))

\* a replace without the g flag: the first span only
RECURSIVE ReplaceThinkOnce(_)
ReplaceThinkOnce(s) ==
  IF s = <<>> THEN <<>>
  ELSE IF Head(s) = OpenTag /\ IndexOf(s, CloseTag, 2) # 0
       THEN SubSeq(s, IndexOf(s, CloseTag, 2) + 1, Len(s))
       ELSE <<Head(s)>> \o ReplaceThinkOnce(Tail(s))

\* the global replace: scan left to right, at each opening tag match lazily
\* up to the nearest closing tag; without one the match fails at this
\* position and the scan moves on by one piece
RECURSIVE ReplaceThink(_)
ReplaceThink(s) ==
  IF s = <<>> THEN <<>>
  ELSE IF Head(s) = OpenTag /\ IndexOf(s, CloseTag, 2) # 0
       THEN ReplaceThink(SubSeq(s, IndexOf(s, CloseTag, 2) + 1, Len(s)))
       ELSE <<Head(s)>> \o ReplaceThink(Tail(s))

RECURSIVE TrimStart(_)
TrimStart(s) ==
  IF s # <<>> /\ IsWhite(Head(s)) THEN TrimStart(Tail(s)) ELSE s

RECURSIVE TrimEnd(_)
TrimEnd(s) ==
  IF s # <<>> /\ IsWhite(s[Len(s)]) THEN TrimEnd(SubSeq(s, 1, Len(s) - 1))
  ELSE s

Trim(s) == TrimEnd(TrimStart(s))

\* a string is the concatenation of its pieces: the pieces "<thi" and
\* "nk>" next to each other are an opening tag to the pattern
RECURSIVE Joined(_)
Joined(s) ==
  IF Len(s) >= 2 /\ s[1] = "<thi" /\ s[2] = "nk>"
  THEN <<OpenTag>> \o Joined(SubSeq(s, 3, Len(s)))
  ELSE IF s = <<>> THEN <<>>
  ELSE <<Head(s)>> \o Joined(Tail(s))

\* the replace without the trim
stripThinkingTokensUntrimmed(content) == ReplaceThink(content)

stripThinkingTokens(content) == Trim(ReplaceThink(Joined(content)))

(***************************************************************************)
(* The zod schemas of validation.ts.  A schema maps a value and the path   *)
(* it sits at to the set of the paths of the issues zod reports; zod       *)
(* reports every issue, not only the first.  An array index i appears in   *)
(* a path as the piece ToString(i).                                        *)
(***************************************************************************)
ZString(j, path) == IF j.k = "string" THEN {} ELSE {path}
ZNumber(j, path) == IF j.k = "number" THEN {} ELSE {path}
ZOptString(j, path) == IF j.k = "undefined" THEN {} ELSE ZString(j, path)
ZOptNumber(j, path) == IF j.k = "undefined" THEN {} ELSE ZNumber(j, path)

ChatMessageSchema(j, path) ==
  IF j.k # "object" THEN {path}
  ELSE ZString(Get(j, "content"), path \o <<"content">>)
       \cup ZOptString(Get(j, "role"), path \o <<"role">>)

ChatChoiceSchema(j, path) ==
  IF j.k # "object" THEN {path}
  ELSE ChatMessageSchema(Get(j, "message"), path \o <<"message">>)
       \cup ZOptString(Get(j, "finish_reason"), path \o <<"finish_reason">>)
       \cup ZOptNumber(Get(j, "index"), path \o <<"index">>)

TokenUsageSchema(j, path) ==
  IF j.k # "object" THEN {path}
  ELSE ZOptNumber(Get(j, "prompt_tokens"), path \o <<"prompt_tokens">>)
       \cup ZOptNumber(Get(j, "completion_tokens"), path \o <<"completion_tokens">>)
       \cup ZOptNumber(Get(j, "total_tokens"), path \o <<"total_tokens">>)

ChatCompletionResponseSchema(j) ==
  IF j.k # "object" THEN {<<>>}
  ELSE LET choices == Get(j, "choices")
           citations == Get(j, "citations")
           usage == Get(j, "usage")
       IN  (IF choices.k # "array" THEN {<<"choices">>}
            ELSE (IF Len(choices.v) < 1 THEN {<<"choices">>} ELSE {})
                 \cup UNION {ChatChoiceSchema(choices.v[i],
                                              <<"choices", ToString(i - 1)>>) :
                             i \in 1..Len(choices.v)})
           \cup (IF citations.k = "undefined" THEN {}
                 ELSE IF citations.k # "array" THEN {<<"citations">>}
                 ELSE UNION {ZString(citations.v[i],
                                     <<"citations", ToString(i - 1)>>) :
                             i \in 1..Len(citations.v)})
           \cup (IF usage.k = "undefined" THEN {}
                 ELSE TokenUsageSchema(usage, <<"usage">>))
           \cup ZOptString(Get(j, "id"), <<"id">>)
           \cup ZOptString(Get(j, "model"), <<"model">>)
           \cup ZOptNumber(Get(j, "created"), <<"created">>)

SearchResultSchema(j, path) ==
  IF j.k # "object" THEN {path}
  ELSE ZString(Get(j, "title"), path \o <<"title">>)
       \cup ZString(Get(j, "url"), path \o <<"url">>)
       \cup ZOptString(Get(j, "snippet"), path \o <<"snippet">>)
       \cup ZOptString(Get(j, "date"), path \o <<"date">>)
       \cup ZOptNumber(Get(j, "score"), path \o <<"score">>)

SearchResponseSchema(j) ==
  IF j.k # "object" THEN {<<>>}
  ELSE LET results == Get(j, "results")
       IN  (IF results.k # "array" THEN {<<"results">>}
            ELSE UNION {SearchResultSchema(results.v[i],
                                           <<"results", ToString(i - 1)>>) :
                        i \in 1..Len(results.v)})
           \cup ZOptString(Get(j, "query"), <<"query">>)
           \cup (IF Get(j, "usage").k = "undefined" THEN {}
                 ELSE IF Get(j, "usage").k # "object" THEN {<<"usage">>}
                 ELSE ZOptNumber(Get(Get(j, "usage"), "tokens"),
                                 <<"usage", "tokens">>))

\* path.includes(piece)
Includes(path, piece) == \E i \in 1..Len(path) : path[i] = piece

\* the ZodError that Schema.parse throws
ZodError == Err("ZodError", <<"issues">>)

\* the TypeError of reading a property of null or undefined
ReadOfNullish(j, key) ==
  Err("TypeError",
      <<"Cannot read properties of ", j.k, " (reading '", key, "')">>)

(***************************************************************************)
(* The outcome of `await response.json()` / `await response.text()`:       *)
(* the value read, or the error the read rejects with.                     *)
(***************************************************************************)
ReadOk(v) == [ok |-> TRUE, value |-> v]
ReadFails(e) == [ok |-> FALSE, error |-> e]

(***************************************************************************)
(* The two programs of the repository.  "index" is src/index.ts, the       *)
(* one-file stdio server with its own CallTool handler; "server" is        *)
(* src/src/server.ts, whose tools are registered on an McpServer.          *)
(***************************************************************************)
Hosts == {"index", "server"}

ApiName(fn) ==
  IF fn = "chat" THEN "Perplexity API" ELSE "Perplexity Search API"

\* the parse of a 2xx chat body: the data, or the Error thrown
ParseChatServer(read) ==
  IF ~read.ok
  THEN Thrown(<<"Failed to parse JSON response from Perplexity API: ">>
              \o ErrStr(read.error))
  ELSE LET issues == ChatCompletionResponseSchema(read.value)
       IN  IF issues = {} THEN Returned(read.value)
           ELSE IF \E i \in issues :
                     Includes(i, "message") \/ Includes(i, "content")
           THEN Thrown(<<"Invalid API response: missing message content">>)
           ELSE IF \E i \in issues : Includes(i, "choices")
           THEN Thrown(<<"Invalid API response: missing or empty choices array">>)
           ELSE Thrown(<<"Failed to parse JSON response from Perplexity API: ">>
                       \o ErrStr(ZodError))

ParseChatIndex(read) ==
  IF ~read.ok
  THEN Thrown(<<"Failed to parse JSON response from Perplexity API: ">>
              \o ErrStr(read.error))
  ELSE LET data == read.value
           choices == Get(data, "choices")
       IN  IF data.k \in {"undefined", "null"}
           THEN Thrown(ReadOfNullish(data, "choices").message)
           ELSE IF ~Truthy(choices) \/ ~IsArray(choices) \/ Len(choices.v) = 0
           THEN Thrown(<<"Invalid API response: missing or empty choices array">>)
           ELSE IF choices.v[1].k \in {"undefined", "null"}
           THEN Thrown(ReadOfNullish(choices.v[1], "message").message)
           ELSE IF ~Truthy(Get(choices.v[1], "message"))
                   \/ TypeOf(Get(Get(choices.v[1], "message"), "content")) # "string"
           THEN Thrown(<<"Invalid API response: missing message content">>)
           ELSE Returned(data)

ParseChat(host, read) ==
  IF host = "server" THEN ParseChatServer(read) ELSE ParseChatIndex(read)

\* citations.forEach((citation, index) => text += `[${index + 1}] ${citation}\n`)
RECURSIVE CitationLines(_, _)
\* lines numbered with the index itself
RECURSIVE CitationLinesFromZero(_, _)
CitationLinesFromZero(citations, i) ==
  IF i > Len(citations) THEN <<>>
  ELSE <<"[", ToString(i - 1), "] ">> \o TemplateStr(citations[i]) \o <<"\n">>
       \o CitationLinesFromZero(citations, i + 1)

CitationLines(citations, i) ==
  IF i > Len(citations) THEN <<>>
  ELSE <<"[", ToString(i), "] ">> \o TemplateStr(citations[i]) \o <<"\n">>
       \o CitationLines(citations, i + 1)

AppendCitations(text, citations) ==
  IF Truthy(citations) /\ IsArray(citations) /\ Len(citations.v) > 0
  THEN text \o <<"\n", "\n", "Citations:", "\n">> \o CitationLines(citations.v, 1)
  ELSE text

\* from firstChoice to the return of performChatCompletion
FinishChat(data, stripThinking) ==
  LET messageContent == Get(Get(Get(data, "choices").v[1], "message"), "content").v
  IN  AppendCitations(IF stripThinking THEN stripThinkingTokens(messageContent)
                      ELSE messageContent,
                      Get(data, "citations"))

\* what performChatCompletion does with the outcome of response.json()
ChatResult(host, read, stripThinking) ==
  IF ParseChat(host, read).ok
  THEN Returned(FinishChat(ParseChat(host, read).value, stripThinking))
  ELSE ParseChat(host, read)

(***************************************************************************)
(* formatSearchResults and the tail of performSearch.                      *)
(***************************************************************************)
\* a block that writes the snippet line whatever the snippet is
FormatResultAlwaysSnippet(result, i) ==
  <<ToString(i), ". **">> \o TemplateStr(Get(result, "title")) \o <<"**", "\n">>
  \o <<"   URL: ">> \o TemplateStr(Get(result, "url")) \o <<"\n">>
  \o <<"   ">> \o TemplateStr(Get(result, "snippet")) \o <<"\n">>
  \o (IF Truthy(Get(result, "date"))
      THEN <<"   Date: ">> \o TemplateStr(Get(result, "date")) \o <<"\n">>
      ELSE <<>>)
  \o <<"\n">>

FormatResult(result, i) ==
  <<ToString(i), ". **">> \o TemplateStr(Get(result, "title")) \o <<"**", "\n">>
  \o <<"   URL: ">> \o TemplateStr(Get(result, "url")) \o <<"\n">>
  \o (IF Truthy(Get(result, "snippet"))
      THEN <<"   ">> \o TemplateStr(Get(result, "snippet")) \o <<"\n">>
      ELSE <<>>)
  \o (IF Truthy(Get(result, "date"))
      THEN <<"   Date: ">> \o TemplateStr(Get(result, "date")) \o <<"\n">>
      ELSE <<>>)
  \o <<"\n">>

RECURSIVE FormatResults(_, _)
FormatResults(results, i) ==
  IF i > Len(results) THEN <<>>
  ELSE FormatResult(results[i], i) \o FormatResults(results, i + 1)

\* reading result.title of a null or undefined result throws
formatSearchResults(data) ==
  IF data.k \in {"undefined", "null"}
  THEN Thrown(ReadOfNullish(data, "results").message)
  ELSE IF ~Truthy(Get(data, "results")) \/ ~IsArray(Get(data, "results"))
  THEN Returned(<<"No search results found.">>)
  ELSE IF \E i \in 1..Len(Get(data, "results").v) :
            Get(data, "results").v[i].k \in {"undefined", "null"}
  THEN Thrown(ReadOfNullish(JNull, "title").message)
  ELSE Returned(<<"Found ", ToString(Len(Get(data, "results").v)),
                  " search results:", "\n", "\n">>
                \o FormatResults(Get(data, "results").v, 1))

SearchResult(host, read) ==
  IF ~read.ok
  THEN Thrown(<<"Failed to parse JSON response from Perplexity Search API: ">>
              \o ErrStr(read.error))
  ELSE IF host = "server" /\ SearchResponseSchema(read.value) # {}
  THEN Thrown(<<"Failed to parse JSON response from Perplexity Search API: ">>
              \o ErrStr(ZodError))
  ELSE formatSearchResults(read.value)

(***************************************************************************)
(* The failures of the transport call and of a non-2xx status.             *)
(***************************************************************************)
\* a catch block that looks for an error named TimeoutError
TransportFailureByOtherName(fn, error, timeoutMs) ==
  IF error.name = "TimeoutError"
  THEN <<"Request timeout: ", ApiName(fn), " did not respond within ",
         NumStr(timeoutMs), "ms. Consider increasing PERPLEXITY_TIMEOUT_MS.">>
  ELSE <<"Network error while calling ", ApiName(fn), ": ">> \o ErrStr(error)

\* the catch block around `await proxyAwareFetch(...)`
TransportFailure(fn, error, timeoutMs) ==
  IF error.name = "AbortError"
  THEN <<"Request timeout: ", ApiName(fn), " did not respond within ",
         NumStr(timeoutMs), "ms. Consider increasing PERPLEXITY_TIMEOUT_MS.">>
  ELSE <<"Network error while calling ", ApiName(fn), ": ">> \o ErrStr(error)

\* a non-2xx block that lets the failure of response.text() escape
UpstreamFailureUnguarded(fn, response, read) ==
  IF read.ok
  THEN <<ApiName(fn), " error: ", ToString(response.status), " ",
         response.statusText, "\n">> \o read.value
  ELSE read.error.message

\* the `if (!response.ok)` block, given the outcome of response.text()
UnableToParse == <<"Unable to parse error response">>
UpstreamFailure(fn, response, read) ==
  <<ApiName(fn), " error: ", ToString(response.status), " ",
    response.statusText, "\n">>
  \o (IF read.ok THEN read.value ELSE UnableToParse)

(***************************************************************************)
(* The tool handlers, up to their first suspension point.  A handler       *)
(* either throws, or returns a result at once, or has issued its outbound  *)
(* request and now awaits proxyAwareFetch.                                 *)
(***************************************************************************)
ChatTools == {"perplexity_ask", "perplexity_research", "perplexity_reason"}
RegisteredTools == ChatTools \cup {"perplexity_search"}

ModelOf(name) ==
  CASE name = "perplexity_ask" -> "sonar-pro"
    [] name = "perplexity_research" -> "sonar-deep-research"
    [] name = "perplexity_reason" -> "sonar-reasoning-pro"

\* at: "handler", or "perform" once performChatCompletion / performSearch
\* has been entered
Threw(at, message) == [kind |-> "threw", at |-> at, message |-> message]
Requested(fn, body, stripThinking) ==
  [kind |-> "request", at |-> "perform", fn |-> fn, body |-> body,
   stripThinking |-> stripThinking]
ResultNow(isError, text) ==
  [kind |-> "result", at |-> "handler", isError |-> isError, text |-> text]

\* the url of the endpoint performChatCompletion / performSearch calls
Url(fn) ==
  IF fn = "chat" THEN "https://api.perplexity.ai/chat/completions"
  ELSE "https://api.perplexity.ai/search"

\* the options of the call: method and body (the headers and the signal
\* are the same for every call)
Options(body) == [method |-> "POST", body |-> body]

\* a resolution that prefers the general settings
getProxyUrlGeneralFirst(env) ==
  IF Truthy(env.HTTPS_PROXY) THEN env.HTTPS_PROXY
  ELSE IF Truthy(env.HTTP_PROXY) THEN env.HTTP_PROXY
  ELSE IF Truthy(env.PERPLEXITY_PROXY) THEN env.PERPLEXITY_PROXY
  ELSE JUndef

\* PERPLEXITY_PROXY || HTTPS_PROXY || HTTP_PROXY || undefined
getProxyUrl(env) ==
  IF Truthy(env.PERPLEXITY_PROXY) THEN env.PERPLEXITY_PROXY
  ELSE IF Truthy(env.HTTPS_PROXY) THEN env.HTTPS_PROXY
  ELSE IF Truthy(env.HTTP_PROXY) THEN env.HTTP_PROXY
  ELSE JUndef

\* the call proxyAwareFetch makes: undiciFetch with the options and a
\* ProxyAgent for the proxy as dispatcher, or the native fetch
proxyAwareFetch(env, url, options) ==
  LET proxyUrl == getProxyUrl(env)
  IN  IF Truthy(proxyUrl)
      THEN [client |-> "undiciFetch", url |-> url, options |-> options,
            dispatcher |-> proxyUrl]
      ELSE [client |-> "fetch", url |-> url, options |-> options,
            dispatcher |-> JUndef]
NoCall == [client |-> "none", url |-> "", options |-> Options(JUndef),
           dispatcher |-> JUndef]

\* a credential check with its condition inverted
CredentialCheckInverted(host, apiKey) ==
  IF host = "server" /\ Truthy(apiKey)
  THEN <<"PERPLEXITY_API_KEY environment variable is required">>
  ELSE NoError

\* no credential check
CredentialCheckSkipped(host, apiKey) == NoError

\* the head of performChatCompletion / performSearch: in server.ts the
\* credential is required first; index.ts has no such check in them
CredentialCheck(host, apiKey) ==
  IF host = "server" /\ ~Truthy(apiKey)
  THEN <<"PERPLEXITY_API_KEY environment variable is required">>
  ELSE NoError

performChatCompletionHead(host, apiKey, messages, model, stripThinking) ==
  IF CredentialCheck(host, apiKey) # NoError
  THEN Threw("perform", CredentialCheck(host, apiKey))
  ELSE Requested("chat",
                 [model |-> JStr(<<model>>), messages |-> messages],
                 stripThinking)

\* { query, max_results, max_tokens_per_page, ...(country && { country }) }
SearchBody(query, maxResults, maxTokensPerPage, country) ==
  IF Truthy(country)
  THEN [query |-> query, max_results |-> maxResults,
        max_tokens_per_page |-> maxTokensPerPage, country |-> country]
  ELSE [query |-> query, max_results |-> maxResults,
        max_tokens_per_page |-> maxTokensPerPage]

DefaultMaxResults == 10
DefaultMaxTokensPerPage == 1024

\* the default parameter values apply to an argument that is undefined
performSearchHead(host, apiKey, query, maxResults, maxTokensPerPage, country) ==
  IF CredentialCheck(host, apiKey) # NoError
  THEN Threw("perform", CredentialCheck(host, apiKey))
  ELSE Requested("search",
                 SearchBody(query,
                            IF maxResults.k = "undefined"
                            THEN JNum(DefaultMaxResults) ELSE maxResults,
                            IF maxTokensPerPage.k = "undefined"
                            THEN JNum(DefaultMaxTokensPerPage) ELSE maxTokensPerPage,
                            country),
                 FALSE)

\* a flag taken for its truthiness
StripArgTruthy(args) == Truthy(Get(args, "strip_thinking"))

\* typeof strip_thinking === "boolean" ? strip_thinking : false
StripArg(args) ==
  IF TypeOf(Get(args, "strip_thinking")) = "boolean"
  THEN Get(args, "strip_thinking").v ELSE FALSE

\* a handler that calls performChatCompletion without validating
ChatToolHandlerUnvalidated(host, apiKey, name, args) ==
  performChatCompletionHead(host, apiKey, Get(args, "messages"), ModelOf(name),
                            IF name = "perplexity_ask" THEN FALSE
                            ELSE StripArg(args))

ChatToolHandler(host, apiKey, name, args) ==
  IF validateMessages(Get(args, "messages"), name) # NoError
  THEN Threw("handler", validateMessages(Get(args, "messages"), name))
  ELSE performChatCompletionHead(host, apiKey, Get(args, "messages"), ModelOf(name),
                                 IF name = "perplexity_ask" THEN FALSE
                                 ELSE StripArg(args))

NumberOr(j, d) == IF TypeOf(j) = "number" THEN j ELSE d
StringOr(j, d) == IF TypeOf(j) = "string" THEN j ELSE d

\* index.ts passes undefined for an absent option and requires a string
\* query; server.ts passes the defaults itself
SearchToolHandler(host, apiKey, args) ==
  IF host = "index" /\ TypeOf(Get(args, "query")) # "string"
  THEN Threw("handler", <<"Invalid arguments for perplexity_search: 'query' must be a string">>)
  ELSE performSearchHead(
         host, apiKey, Get(args, "query"),
         NumberOr(Get(args, "max_results"),
                  IF host = "index" THEN JUndef ELSE JNum(DefaultMaxResults)),
         NumberOr(Get(args, "max_tokens_per_page"),
                  IF host = "index" THEN JUndef ELSE JNum(DefaultMaxTokensPerPage)),
         StringOr(Get(args, "country"), JUndef))

\* index.ts: the CallToolRequestSchema handler, inside its try block
CallToolIndex(apiKey, name, args) ==
  IF ~Truthy(args) THEN Threw("handler", <<"No arguments provided">>)
  ELSE IF name \in ChatTools THEN ChatToolHandler("index", apiKey, name, args)
  ELSE IF name = "perplexity_search" THEN SearchToolHandler("index", apiKey, args)
  ELSE ResultNow(TRUE, <<"Unknown tool: ", name>>)

\* server.ts: the inputSchema a tool is registered with
MessagesSchema(j) ==
  /\ IsArray(j)
  /\ \A i \in 1..Len(j.v) :
       /\ j.v[i].k = "object"
       /\ Get(j.v[i], "role").k = "string"
       /\ Get(j.v[i], "content").k = "string"

OptionalNumberIn(j, min, max) ==
  j.k = "undefined" \/ (j.k = "number" /\ min <= j.v /\ j.v <= max)

InputSchema(name, args) ==
  /\ args.k = "object"
  /\ IF name \in ChatTools
     THEN /\ MessagesSchema(Get(args, "messages"))
          /\ name = "perplexity_ask"
             \/ Get(args, "strip_thinking").k \in {"undefined", "boolean"}
     ELSE /\ Get(args, "query").k = "string"
          /\ OptionalNumberIn(Get(args, "max_results"), 1, 20)
          /\ OptionalNumberIn(Get(args, "max_tokens_per_page"), 256, 2048)
          /\ Get(args, "country").k \in {"undefined", "string"}

\* a server that takes any name for the search tool
CallToolServerUnchecked(apiKey, name, args) ==
  IF ~InputSchema(name, args)
  THEN ResultNow(TRUE, <<"Input validation error: Invalid arguments for tool ", name>>)
  ELSE IF name \in ChatTools THEN ChatToolHandler("server", apiKey, name, args)
  ELSE SearchToolHandler("server", apiKey, args)

\* server.ts: McpServer answers for a name no tool is registered under
\* and for arguments the tool's inputSchema rejects, and calls the
\* registered callback otherwise
CallToolServer(apiKey, name, args) ==
  IF name \notin RegisteredTools
  THEN ResultNow(TRUE, <<"Tool ", name, " not found">>)
  ELSE IF ~InputSchema(name, args)
  THEN ResultNow(TRUE, <<"Input validation error: Invalid arguments for tool ", name>>)
  ELSE IF name \in ChatTools THEN ChatToolHandler("server", apiKey, name, args)
  ELSE SearchToolHandler("server", apiKey, args)

CallTool(host, apiKey, name, args) ==
  IF host = "index" THEN CallToolIndex(apiKey, name, args)
  ELSE CallToolServer(apiKey, name, args)

(***************************************************************************)
(* The invocation boundary: what the protocol layer gets for a handler     *)
(* that returned text or threw.  index.ts catches in the handler and       *)
(* prefixes "Error: "; for server.ts the McpServer turns the rejection of  *)
(* the callback into a result flagged isError.                             *)
(***************************************************************************)
Delivered(isError, text) ==
  [delivered |-> "result", isError |-> isError, text |-> text]
Uncaught(message) ==
  [delivered |-> "exception", isError |-> TRUE, text |-> message]
NoResult == [delivered |-> "nothing", isError |-> FALSE, text |-> <<>>]

\* a boundary that lets the handler's exception through
BoundaryRethrows(host, outcome) ==
  IF outcome.ok THEN Delivered(FALSE, outcome.value)
  ELSE Uncaught(outcome.message)

Boundary(host, outcome) ==
  IF outcome.ok THEN Delivered(FALSE, outcome.value)
  ELSE IF host = "index" THEN Delivered(TRUE, <<"Error: ">> \o outcome.message)
  ELSE Delivered(TRUE, outcome.message)

\* http.ts: the answer of the /mcp endpoint to a tools/call request with
\* the given id.  The transport writes the result under the id of the
\* request with status 200; an exception out of handleRequest is answered
\* by the catch block, status 500 and a null id.
McpPost(id, delivered) ==
  IF delivered.delivered = "result"
  THEN [status |-> 200, jsonrpc |-> "2.0", id |-> id, kind |-> "result",
        isError |-> delivered.isError, text |-> delivered.text]
  ELSE [status |-> 500, jsonrpc |-> "2.0", id |-> JNull, kind |-> "error",
        isError |-> TRUE, text |-> <<"Internal server error">>]

(***************************************************************************)
(* The inputs of the model: invocations, settings, upstream answers.       *)
(***************************************************************************)
Str(piece) == JStr(<<piece>>)
GoodMessage == JObj([role |-> Str("user"), content |-> Str("hi")])
NoContentMessage == JObj([role |-> Str("user")])

ArgsGood == JObj([messages |-> JArr(<<GoodMessage>>)])
ArgsStrip == JObj([messages |-> JArr(<<GoodMessage>>), strip_thinking |-> JBool(TRUE)])
ArgsNotArray == JObj([messages |-> Str("hi")])
ArgsBadSecond == JObj([messages |-> JArr(<<GoodMessage, NoContentMessage>>)])
ArgsQuery == JObj([query |-> Str("q")])

Invocation(name, args) == [name |-> name, args |-> args]
Invocations ==
  { Invocation("perplexity_ask", ArgsGood),
    Invocation("perplexity_ask", ArgsNotArray),
    Invocation("perplexity_ask", JUndef),
    Invocation("perplexity_research", ArgsStrip),
    Invocation("perplexity_reason", ArgsBadSecond),
    Invocation("perplexity_search", ArgsQuery),
    Invocation("nonexistent_tool", ArgsGood) }

\* PERPLEXITY_API_KEY, read once when the module is loaded
ApiKeys == {JUndef, Str("test-api-key")}

\* PERPLEXITY_TIMEOUT_MS: unset, "50"
TimeoutSettings == {JUndef, JStr(<<"5", "0">>)}

\* PERPLEXITY_PROXY, HTTPS_PROXY, HTTP_PROXY: unset, empty, a proxy
ProxyNames == {"PERPLEXITY_PROXY", "HTTPS_PROXY", "HTTP_PROXY"}
ProxyOf(name) ==
  CASE name = "PERPLEXITY_PROXY" -> Str("http://perplexity-proxy:8080")
    [] name = "HTTPS_PROXY" -> Str("http://https-proxy:8080")
    [] name = "HTTP_PROXY" -> Str("http://http-proxy:8080")
ProxySettings(name) == {JUndef, Str(""), ProxyOf(name)}
NoProxy == [name \in ProxyNames |-> JUndef]

\* the response the transport call resolves with
Response(status, statusText) == [status |-> status, statusText |-> statusText]
NoResponse == Response(0, "")
Ok(response) == response.status >= 200 /\ response.status <= 299
Responses ==
  {Response(200, "OK"), Response(401, "Unauthorized"),
   Response(500, "Internal Server Error")}

\* the errors the transport call rejects with: the AbortError of its
\* signal, or a failure of the network
AbortError == Err("AbortError", <<"The operation was aborted.">>)
NetworkErrors == {Err("TypeError", <<"fetch failed">>)}

\* the outcomes of reading a diagnostic body
TextReads ==
  {ReadOk(<<"Invalid API key">>), ReadFails(Err("Error", <<"Cannot read error">>))}

\* the outcomes of reading a 2xx body
Choice(content) == JObj([message |-> JObj([content |-> content])])
ThinkingContent == JStr(<<OpenTag, "plan", CloseTag, "\n", "answer">>)
SyntaxError == Err("SyntaxError", <<"Unexpected end of JSON input">>)
ChatReads ==
  { ReadOk(JObj([choices |-> JArr(<<Choice(ThinkingContent)>>)])),
    ReadOk(JObj([choices |-> JArr(<<Choice(Str("answer"))>>),
                 citations |-> JArr(<<Str("https://a"), Str("https://b")>>)])),
    ReadOk(JObj([choices |-> JArr(<<>>)])),
    ReadOk(JObj([choices |-> JArr(<<JObj([message |-> JNull])>>)])),
    ReadFails(SyntaxError) }

SearchHit(title, url) == JObj([title |-> Str(title), url |-> Str(url)])
SearchReads ==
  { ReadOk(JObj([results |-> JArr(<<SearchHit("T", "https://t")>>)])),
    ReadOk(JObj([query |-> Str("q")])),
    ReadFails(SyntaxError) }

(***************************************************************************)
(* 2xx chat bodies, field by field.  A field that is absent from the JSON  *)
(* reads as undefined, so an absent field is written as JUndef.            *)
(***************************************************************************)
Message(content, role) == JObj([content |-> content, role |-> role])
ChoiceOf(message, finish_reason) ==
  JObj([message |-> message, finish_reason |-> finish_reason])
GoodChoice == ChoiceOf(Message(Str("answer"), Str("assistant")), Str("stop"))

MessageVals ==
  { Message(Str("answer"), JUndef),
    Message(ThinkingContent, Str("assistant")),
    Message(JNum(123), JUndef),
    Message(JUndef, Str("assistant")),
    Message(Str("answer"), JNum(5)),
    JNull,
    JUndef }

ChoiceVals ==
  {ChoiceOf(m, JUndef) : m \in MessageVals}
  \cup {GoodChoice, ChoiceOf(Message(Str("answer"), JUndef), JNum(5))}

ChoicesVals ==
  {JUndef, JNull, Str("none"), JArr(<<>>)}
  \cup {JArr(<<ch>>) : ch \in ChoiceVals}
  \cup {JArr(<<GoodChoice, ChoiceOf(m, JUndef)>>) :
          m \in {JNull, Message(Str("second"), JUndef)}}

UrlNames == <<"https://a", "https://b", "https://c", "https://d">>
CitationCounts ==
  {n \in 0..MaxCitations : n <= Len(UrlNames)}
CitationsVals ==
  {JUndef, Str("not-an-array")}
  \cup {JArr([i \in 1..n |-> Str(UrlNames[i])]) : n \in CitationCounts}
  \cup {JArr([i \in 1..n |-> Str(UrlNames[n + 1 - i])]) : n \in CitationCounts}

ChatBody(choices, citations, created) ==
  JObj([choices |-> choices, citations |-> citations, created |-> created])

ChatBodies ==
  {ChatBody(ch, ci, cr) :
     ch \in ChoicesVals, ci \in CitationsVals, cr \in {JUndef, Str("now")}}

ParseReads == {ReadOk(b) : b \in ChatBodies} \cup {ReadFails(SyntaxError)}

ChatInvocations ==
  {i \in Invocations :
     i.name \in ChatTools /\ validateMessages(Get(i.args, "messages"), i.name) = NoError}

(***************************************************************************)
(* Contents for stripThinkingTokens: a string is a sequence of pieces, a   *)
(* tag or a whitespace character being a piece of its own.                 *)
(***************************************************************************)
Pieces == {OpenTag, CloseTag, "a", "<b>", " ", "\n"}
Texts == UNION {[1..n -> Pieces] : n \in 0..MaxTextLen}
TextBody(text) ==
  ChatBody(JArr(<<ChoiceOf(Message(JStr(text), JUndef), JUndef)>>), JUndef, JUndef)

\* texts in which an opening tag is also written in two pieces
TagPieces == {"<thi", "nk>", OpenTag, CloseTag, "a", " "}
TagTexts == UNION {[1..n -> TagPieces] : n \in 0..MaxTextLen}

ArgsStripOff == JObj([messages |-> JArr(<<GoodMessage>>), strip_thinking |-> JBool(FALSE)])
StripInvocations ==
  { Invocation("perplexity_research", ArgsStrip),
    Invocation("perplexity_reason", ArgsStripOff),
    Invocation("perplexity_ask", ArgsStrip) }

(***************************************************************************)
(* Arguments for validateMessages.                                         *)
(***************************************************************************)
NonArrays == {Str("not-an-array"), JNull, JUndef, JNum(5), GoodMessage}
ElementVals ==
  { GoodMessage,
    JNull,
    Str("string"),
    JObj([content |-> Str("test")]),
    JObj([role |-> JNum(123), content |-> Str("test")]),
    JObj([role |-> JStr(<<>>), content |-> Str("test")]),
    NoContentMessage,
    JObj([role |-> Str("user"), content |-> JNull]),
    JObj([role |-> Str("user"), content |-> JNum(123)]),
    JObj([role |-> Str("assistant"), content |-> JStr(<<>>)]) }
MessageArrays == UNION {[1..n -> ElementVals] : n \in 0..MaxMessages}
MessagesVals == NonArrays \cup {JArr(a) : a \in MessageArrays}

(***************************************************************************)
(* 2xx search bodies.  Every result carries a field the formatter does     *)
(* not know.                                                               *)
(***************************************************************************)
ResultOf(title, url, snippet, date) ==
  JObj([title |-> title, url |-> url, snippet |-> snippet, date |-> date,
        score |-> JNum(12345)])
ResultVals ==
  {ResultOf(t, u, sn, d) :
     t \in {Str("Test"), JNull},
     u \in {Str("https://example.com"), JNull},
     sn \in {JUndef, Str("snippet"), JStr(<<>>)},
     d \in {JUndef, Str("2025-01-01"), JNull}}
ResultsVals ==
  {JUndef, JNull, Str("none"), JObj([length |-> JNum(1)])}
  \cup {JArr(a) : a \in UNION {[1..n -> ResultVals] : n \in 0..MaxResults}}
SearchBodies == {JObj([results |-> r]) : r \in ResultsVals}

(***************************************************************************)
(* Optional arguments of the tools, of the expected type and not.          *)
(***************************************************************************)
SearchArgs(max_results, max_tokens_per_page, country) ==
  JObj([query |-> Str("q"), max_results |-> max_results,
        max_tokens_per_page |-> max_tokens_per_page, country |-> country])
SearchArgsVals ==
  {SearchArgs(r, t, co) :
     r \in {JUndef, JNum(5), Str("5"), JNull, JBool(TRUE), JNum(0)},
     t \in {JUndef, JNum(512), JStr(<<"5", "1", "2">>), JNum(100)},
     co \in {JUndef, Str("US"), JNum(1), JStr(<<>>)}}
StripArgsVals ==
  {JObj([messages |-> JArr(<<GoodMessage>>), strip_thinking |-> f]) :
     f \in {JUndef, JBool(TRUE), JBool(FALSE), Str("true"), JNum(1)}}
OptionInvocations ==
  {Invocation("perplexity_search", a) : a \in SearchArgsVals}
  \cup {Invocation(n, a) : n \in ChatTools, a \in StripArgsVals}

\* invocations under names no tool is registered under, with no
\* arguments, an empty object, and a query; and one of a registered tool
UnknownNames == {"nonexistent_tool", "perplexity", ""}
UnknownArgs == {JUndef, JObj(<<>>), ArgsQuery}
UnknownInvocations ==
  {Invocation(n, a) : n \in UnknownNames, a \in UnknownArgs}
  \cup {Invocation("perplexity_search", ArgsQuery)}

\* the id of a JSON-RPC request
RequestIds == {JNum(2), Str("abc")}

\* a chat call and a search call
ProxyInvocations ==
  {Invocation("perplexity_ask", ArgsGood), Invocation("perplexity_search", ArgsQuery)}

\* PERPLEXITY_TIMEOUT_MS: unset, empty, positive integers, zero, a
\* negative number, text, and digits followed by text
BudgetSettings ==
  {JUndef, JStr(<<>>), JStr(<<"5", "0">>), JStr(<<"7">>), JStr(<<"0">>),
   JStr(<<"-", "5">>), JStr(<<"a", "b", "c">>), JStr(<<"5", "s">>),
   JStr(<<" ">>)}

NoRead == ReadFails(Err("", <<>>))

(***************************************************************************)
(* The state.                                                              *)
(***************************************************************************)
Calls == 1..NumCalls

VARIABLES
  host,          \* which program runs
  apiKey,        \* the module constant PERPLEXITY_API_KEY
  timeoutEnv,    \* process.env.PERPLEXITY_TIMEOUT_MS
  proxyEnv,      \* process.env: PERPLEXITY_PROXY, HTTPS_PROXY, HTTP_PROXY
  pc,            \* where each invocation is: idle, fetch, errText, json, done
  tool,          \* request.params.name
  args,          \* request.params.arguments
  request,       \* the outbound request of the invocation
  stripThinking, \* the stripThinking parameter of performChatCompletion
  TIMEOUT_MS,    \* the constant the call read at its start
  timer,         \* timeoutId: none, armed, fired, cleared
  elapsed,       \* the time the timer has been armed for
  aborted,       \* controller.signal.aborted
  response,      \* what proxyAwareFetch resolved with
  body,          \* the outcome of reading the response's body
  outcome,       \* what the handler returned or threw
  result,        \* what the invocation gave the protocol layer
  hist           \* per invocation: what it did (see NoHist)

\* http.ts: the /mcp endpoint, its requests and the one server they share
Requests == 1..NumRequests
\* the requests to the endpoint in sessions mode
Visits == 1..NumVisits
Slots == Requests \cup Visits

VARIABLES
  mode,            \* off until the endpoint listens; stateless or sessions
  conn,            \* per request, the connection under res: none, open, closed
  channel,         \* per request, the transport created for it
  serverTransport, \* the transport mcpServer is connected to (0: none)
  captured,        \* per request, the transport its JSON-RPC message came on
  toolCall,        \* per request, its tool call: none, inflight, done
  rpcId,           \* per request, the id of its JSON-RPC message
  res,             \* per request, the HTTP response
  logged,          \* per request, the errors logged for it
  live,            \* the live-session map: session id -> channel
  session          \* per request: its verb, the session id it presented
                   \* and the session that served it (0: none)

httpVars ==
  <<mode, conn, channel, serverTransport, captured, toolCall, rpcId, res, logged,
    live, session>>

vars ==
  <<host, apiKey, timeoutEnv, proxyEnv, pc, tool, args, request, stripThinking, TIMEOUT_MS,
    timer, elapsed, aborted, response, body, outcome, result, hist, httpVars>>

config == <<host, apiKey, proxyEnv, httpVars>>
callVars ==
  <<pc, tool, args, request, stripThinking, TIMEOUT_MS, timer, elapsed, aborted,
    response, body, outcome, result, hist>>

NoRequest == [fn |-> "none", body |-> JUndef, call |-> NoCall]

\* an HTTP response: how many times a response was started on it, its
\* status, the id in its body and the request whose result the body
\* carries (0: none)
NoRes == [started |-> 0, status |-> 0, id |-> JUndef, from |-> 0, text |-> <<>>]
Written(r, status, id, from) ==
  [started |-> r.started + 1, status |-> status, id |-> id, from |-> from,
   text |-> <<>>]
NoSession == [method |-> "", presented |-> 0, served |-> 0]
NoOutcome == Thrown(<<>>)

\* performs: calls of performChatCompletion / performSearch; fetches:
\* calls of proxyAwareFetch; timers: calls of setTimeout; envReads: reads
\* of PERPLEXITY_TIMEOUT_MS; env: the setting when the invocation
\* started; results: results given to the protocol layer
Hist(performs, requests, env, results) ==
  [performs |-> performs, fetches |-> requests, timers |-> requests,
   envReads |-> requests, env |-> env, results |-> results]
NoHist == Hist(0, 0, JUndef, 0)

\* index.ts exits at startup without a credential; the server of
\* server.ts is created with or without one
Init ==
  /\ host \in Hosts
  /\ apiKey \in ApiKeys
  /\ host = "index" => Truthy(apiKey)
  /\ timeoutEnv \in TimeoutSettings
  /\ proxyEnv = NoProxy
  /\ pc = [c \in Calls |-> "idle"]
  /\ tool = [c \in Calls |-> ""]
  /\ args = [c \in Calls |-> JUndef]
  /\ request = [c \in Calls |-> NoRequest]
  /\ stripThinking = [c \in Calls |-> FALSE]
  /\ TIMEOUT_MS = [c \in Calls |-> NaN]
  /\ timer = [c \in Calls |-> "none"]
  /\ elapsed = [c \in Calls |-> 0]
  /\ aborted = [c \in Calls |-> FALSE]
  /\ response = [c \in Calls |-> NoResponse]
  /\ body = [c \in Calls |-> NoRead]
  /\ outcome = [c \in Calls |-> NoOutcome]
  /\ result = [c \in Calls |-> NoResult]
  /\ hist = [c \in Calls |-> NoHist]
  /\ mode = "off"
  /\ conn = [r \in Slots |-> "none"]
  /\ channel = [r \in Slots |-> "none"]
  /\ serverTransport = 0
  /\ captured = [r \in Slots |-> 0]
  /\ toolCall = [r \in Slots |-> "none"]
  /\ rpcId = [r \in Slots |-> JUndef]
  /\ res = [r \in Slots |-> NoRes]
  /\ logged = [r \in Slots |-> 0]
  /\ live = <<>>
  /\ session = [r \in Slots |-> NoSession]

(***************************************************************************)
(* The steps.  JavaScript runs a handler to its next await without         *)
(* interleaving, so each step is one such run.                             *)
(***************************************************************************)
\* the handler settles and the protocol layer gets its result
Finish(c, settled) ==
  /\ pc' = [pc EXCEPT ![c] = "done"]
  /\ outcome' = [outcome EXCEPT ![c] = settled]
  /\ result' = [result EXCEPT ![c] = Boundary(host, settled)]
  /\ hist' = [hist EXCEPT ![c].results = @ + 1]

\* a tools/call request arrives: the handler runs up to its first await.
\* Invocations are numbered in the order they arrive.
Invoke(c, name, arguments) ==
  /\ pc[c] = "idle"
  /\ \A d \in Calls : d < c => pc[d] # "idle"
  /\ tool' = [tool EXCEPT ![c] = name]
  /\ args' = [args EXCEPT ![c] = arguments]
  /\ LET h == CallTool(host, apiKey, name, arguments)
     IN  /\ IF h.kind = "request"
            THEN /\ TIMEOUT_MS' = [TIMEOUT_MS EXCEPT ![c] = ReadTimeout(timeoutEnv)]
                 /\ timer' = [timer EXCEPT ![c] = "armed"]
                 /\ request' = [request EXCEPT ![c] =
                                  [fn |-> h.fn, body |-> JObj(h.body),
                                   call |-> proxyAwareFetch(proxyEnv, Url(h.fn),
                                                            Options(JObj(h.body)))]]
                 /\ stripThinking' = [stripThinking EXCEPT ![c] = h.stripThinking]
                 /\ pc' = [pc EXCEPT ![c] = "fetch"]
                 /\ hist' = [hist EXCEPT ![c] = Hist(1, 1, timeoutEnv, 0)]
                 /\ UNCHANGED <<outcome, result>>
            ELSE /\ pc' = [pc EXCEPT ![c] = "done"]
                 /\ outcome' = [outcome EXCEPT ![c] =
                                  Thrown(IF h.kind = "result" THEN h.text
                                         ELSE h.message)]
                 /\ result' = [result EXCEPT ![c] =
                                 IF h.kind = "result" THEN Delivered(h.isError, h.text)
                                 ELSE Boundary(host, Thrown(h.message))]
                 /\ hist' = [hist EXCEPT ![c] =
                               Hist(IF h.at = "perform" THEN 1 ELSE 0, 0,
                                    timeoutEnv, 1)]
                 /\ UNCHANGED <<TIMEOUT_MS, timer, request, stripThinking>>
  /\ UNCHANGED <<config, timeoutEnv, elapsed, aborted, response, body>>

\* the transport call resolves: clearTimeout, then the body is awaited
FetchResolves(c, resp) ==
  /\ pc[c] = "fetch"
  /\ ~aborted[c]
  /\ response' = [response EXCEPT ![c] = resp]
  /\ timer' = [timer EXCEPT ![c] = "cleared"]
  /\ pc' = [pc EXCEPT ![c] = IF Ok(resp) THEN "json" ELSE "errText"]
  /\ UNCHANGED <<config, timeoutEnv, tool, args, request, stripThinking, TIMEOUT_MS,
                 elapsed, aborted, body, outcome, result, hist>>

\* a catch block without clearTimeout
FetchRejectsTimerLeft(c, error) ==
  /\ pc[c] = "fetch"
  /\ IF aborted[c] THEN error = AbortError ELSE error \in NetworkErrors
  /\ Finish(c, Thrown(TransportFailure(request[c].fn, error, TIMEOUT_MS[c])))
  /\ UNCHANGED <<config, timeoutEnv, tool, args, request, stripThinking, TIMEOUT_MS,
                 timer, elapsed, aborted, response, body>>

\* the transport call rejects: with the AbortError once the signal is
\* aborted, with a network failure before.  clearTimeout leaves a timer
\* that has fired as it is.
FetchRejects(c, error) ==
  /\ pc[c] = "fetch"
  /\ IF aborted[c] THEN error = AbortError ELSE error \in NetworkErrors
  /\ timer' = [timer EXCEPT ![c] = IF @ = "armed" THEN "cleared" ELSE @]
  /\ Finish(c, Thrown(TransportFailure(request[c].fn, error, TIMEOUT_MS[c])))
  /\ UNCHANGED <<config, timeoutEnv, tool, args, request, stripThinking, TIMEOUT_MS,
                 elapsed, aborted, response, body>>

\* a controller shared by the calls: the callback aborts them all
TimerFiresSharedController(c) ==
  /\ timer[c] = "armed"
  /\ elapsed[c] >= TimerDelay(TIMEOUT_MS[c])
  /\ timer' = [timer EXCEPT ![c] = "fired"]
  /\ aborted' = [d \in Calls |-> aborted[d] \/ pc[d] = "fetch"]
  /\ UNCHANGED <<config, timeoutEnv, pc, tool, args, request, stripThinking,
                 TIMEOUT_MS, elapsed, response, body, outcome, result, hist>>

\* the timer's callback: controller.abort()
TimerFires(c) ==
  /\ timer[c] = "armed"
  /\ elapsed[c] >= TimerDelay(TIMEOUT_MS[c])
  /\ timer' = [timer EXCEPT ![c] = "fired"]
  /\ aborted' = [aborted EXCEPT ![c] = TRUE]
  /\ UNCHANGED <<config, timeoutEnv, pc, tool, args, request, stripThinking,
                 TIMEOUT_MS, elapsed, response, body, outcome, result, hist>>

\* time passes, up to the next deadline of an armed timer
Running == {c \in Calls : timer[c] = "armed" /\ elapsed[c] < TimerDelay(TIMEOUT_MS[c])}
Remaining(c) == TimerDelay(TIMEOUT_MS[c]) - elapsed[c]
Tick ==
  /\ Running # {}
  /\ LET d == CHOOSE r \in {Remaining(c) : c \in Running} :
                \A c \in Running : r <= Remaining(c)
     IN  elapsed' = [c \in Calls |-> IF c \in Running THEN elapsed[c] + d
                                     ELSE elapsed[c]]
  /\ UNCHANGED <<config, timeoutEnv, pc, tool, args, request, stripThinking,
                 TIMEOUT_MS, timer, aborted, response, body, outcome, result, hist>>

\* response.text() of a non-2xx response settles
TextSettles(c, read) ==
  /\ pc[c] = "errText"
  /\ body' = [body EXCEPT ![c] = read]
  /\ Finish(c, Thrown(UpstreamFailure(request[c].fn, response[c], read)))
  /\ UNCHANGED <<config, timeoutEnv, tool, args, request, stripThinking, TIMEOUT_MS,
                 timer, elapsed, aborted, response>>

\* response.json() of a 2xx response settles, in performChatCompletion
ChatJsonSettles(c, read) ==
  /\ pc[c] = "json"
  /\ request[c].fn = "chat"
  /\ body' = [body EXCEPT ![c] = read]
  /\ Finish(c, ChatResult(host, read, stripThinking[c]))
  /\ UNCHANGED <<config, timeoutEnv, tool, args, request, stripThinking, TIMEOUT_MS,
                 timer, elapsed, aborted, response>>

\* response.json() of a 2xx response settles, in performSearch
SearchJsonSettles(c, read) ==
  /\ pc[c] = "json"
  /\ request[c].fn = "search"
  /\ body' = [body EXCEPT ![c] = read]
  /\ Finish(c, SearchResult(host, read))
  /\ UNCHANGED <<config, timeoutEnv, tool, args, request, stripThinking, TIMEOUT_MS,
                 timer, elapsed, aborted, response>>

\* the operator changes PERPLEXITY_TIMEOUT_MS
SetTimeout(setting) ==
  /\ setting # timeoutEnv
  /\ timeoutEnv' = setting
  /\ UNCHANGED <<config, callVars>>

\* the operator changes one of the proxy settings
SetProxy(name, setting) ==
  /\ setting # proxyEnv[name]
  /\ proxyEnv' = [proxyEnv EXCEPT ![name] = setting]
  /\ UNCHANGED <<host, apiKey, timeoutEnv, callVars, httpVars>>

Next ==
  \/ \E c \in Calls, i \in Invocations : Invoke(c, i.name, i.args)
  \/ \E c \in Calls, r \in Responses : FetchResolves(c, r)
  \/ \E c \in Calls, e \in NetworkErrors \cup {AbortError} : FetchRejects(c, e)
  \/ \E c \in Calls : TimerFires(c)
  \/ Tick
  \/ \E c \in Calls, r \in TextReads : TextSettles(c, r)
  \/ \E c \in Calls, r \in ChatReads : ChatJsonSettles(c, r)
  \/ \E c \in Calls, r \in SearchReads : SearchJsonSettles(c, r)
  \/ \E s \in TimeoutSettings : SetTimeout(s)

Spec == Init /\ [][Next]_vars

(***************************************************************************)
(* http.ts: the /mcp endpoint.  One McpServer is created when the module   *)
(* is loaded; the route handler creates a transport for every request,     *)
(* connects the server to it and hands it the request.  With               *)
(* enableJsonResponse the transport writes the JSON-RPC response on the    *)
(* HTTP response of the request it was handed, when the server sends it.   *)
(* The server sends a response on the transport its request came on.       *)
(***************************************************************************)
coreVars == <<host, apiKey, proxyEnv, timeoutEnv, callVars>>

RpcIds == {JNum(1), JNum(2)}

\* where the try block of the route handler throws: nowhere; in connect;
\* in handleRequest before anything is written, after the transport has
\* written its answer, or after the tool call has been started
Faults == {"none", "connect", "handleEarly", "handleLate", "handleDispatched"}

\* app.listen: the endpoint serves in one of its two modes
Listen(m) ==
  /\ mode = "off"
  /\ mode' = m
  /\ UNCHANGED <<coreVars, conn, channel, serverTransport, captured, toolCall,
                 rpcId, res, logged, live, session>>

\* a catch block that answers without looking at res.headersSent
CatchBlockUnguarded(sent) == Written(sent, 500, JNull, 0)

\* the catch block: the 500 answer with a null id unless the headers
\* are sent
CatchBlock(sent) ==
  IF sent.started = 0 THEN Written(sent, 500, JNull, 0) ELSE sent

\* a server that sends on the transport it is connected to now
ResponseTransportCurrent(r) == serverTransport

\* the transport the server sends the response of request r on
ResponseTransport(r) == captured[r]

\* the transport t writes the response with this id: it is open, the
\* request it was handed has this id, and its HTTP response is not started
Accepts(channels, ids, responses, t, id) ==
  /\ t # 0
  /\ channels[t] = "open"
  /\ ids[t] = id
  /\ responses[t].started = 0

\* app.all("/mcp"): request r arrives and the handler runs until it
\* returns; a tool call that awaits the upstream is left in flight
McpRoute(r, id, suspends, fault) ==
  /\ mode = "stateless"
  /\ conn[r] = "none"
  /\ \A q \in Requests : q < r => conn[q] # "none"
  /\ suspends => fault \in {"none", "handleDispatched"}
  /\ fault = "handleDispatched" => suspends
  /\ conn' = [conn EXCEPT ![r] = "open"]
  /\ channel' = [channel EXCEPT ![r] = "open"]
  /\ serverTransport' = r
  /\ rpcId' = [rpcId EXCEPT ![r] = id]
  /\ LET received == fault \in {"none", "handleLate", "handleDispatched"}
         answered == received /\ ~suspends
         tried == IF answered /\ Accepts(channel', rpcId', res, r, id)
                  THEN [res EXCEPT ![r] = Written(@, 200, id, r)]
                  ELSE res
     IN  /\ captured' = [captured EXCEPT ![r] = IF received THEN r ELSE 0]
         /\ toolCall' = [toolCall EXCEPT ![r] =
                           IF ~received THEN "none"
                           ELSE IF suspends THEN "inflight" ELSE "done"]
         /\ res' = IF fault = "none" THEN tried
                   ELSE [tried EXCEPT ![r] = CatchBlock(@)]
         /\ logged' = [logged EXCEPT ![r] = IF fault = "none" THEN 0 ELSE 1]
  /\ UNCHANGED <<coreVars, mode, live, session>>

\* the tool call of request r settles and the server sends its result;
\* a transport that does not take it throws, which is logged
SendResult(r) ==
  /\ toolCall[r] = "inflight"
  /\ toolCall' = [toolCall EXCEPT ![r] = "done"]
  /\ LET t == ResponseTransport(r)
     IN  IF Accepts(channel, rpcId, res, t, rpcId[r])
         THEN /\ res' = [res EXCEPT ![t] = Written(@, 200, rpcId[r], r)]
              /\ UNCHANGED logged
         ELSE /\ logged' = [logged EXCEPT ![r] = @ + 1]
              /\ UNCHANGED res
  /\ UNCHANGED <<coreVars, mode, conn, channel, serverTransport, captured, rpcId,
                 live, session>>

\* a close listener that closes the transport the server is connected to
ResCloseCurrent(r) ==
  /\ mode = "stateless"
  /\ conn[r] = "open"
  /\ conn' = [conn EXCEPT ![r] = "closed"]
  /\ channel' = [q \in Slots |->
                   IF q = serverTransport THEN "closed" ELSE channel[q]]
  /\ serverTransport' = 0
  /\ UNCHANGED <<coreVars, mode, captured, toolCall, rpcId, res, logged, live,
                 session>>

\* res.on("close"): the connection of request r closes, after its
\* response or because the peer left; the listener closes the transport
\* of r, and the server is then connected to none
ResClose(r) ==
  /\ mode = "stateless"
  /\ conn[r] = "open"
  /\ conn' = [conn EXCEPT ![r] = "closed"]
  /\ channel' = [channel EXCEPT ![r] = "closed"]
  /\ serverTransport' = 0
  /\ UNCHANGED <<coreVars, mode, captured, toolCall, rpcId, res, logged, live,
                 session>>

NextHttp ==
  \/ Listen("stateless")
  \/ \E r \in Requests, id \in RpcIds, suspends \in BOOLEAN, fault \in Faults :
       McpRoute(r, id, suspends, fault)
  \/ \E r \in Requests : SendResult(r)
  \/ \E r \in Requests : ResClose(r)

SpecHttp == Init /\ [][NextHttp]_vars

(***************************************************************************)
(* Properties.                                                             *)
(***************************************************************************)
EndsWith(text, suffix) ==
  /\ Len(suffix) <= Len(text)
  /\ SubSeq(text, Len(text) - Len(suffix) + 1, Len(text)) = suffix

ApiLabel(c) ==
  IF request[c].fn = "chat" THEN "Perplexity API" ELSE "Perplexity Search API"

\* the transport call of invocation c has rejected
TransportRejected(c) ==
  pc[c] = "done" /\ hist[c].fetches = 1 /\ response[c] = NoResponse

TimeoutText(c, budget) ==
  <<"Request timeout: ", ApiLabel(c), " did not respond within ", budget,
    "ms. Consider increasing PERPLEXITY_TIMEOUT_MS.">>

NetworkText(c, error) ==
  <<"Network error while calling ", ApiLabel(c), ": ", error.name, ": ">>
  \o error.message

\* C1: every invocation finishes with exactly one structured result, a
\* success carrying the text the handler returned or a failure flagged
\* isError whose text carries the message of what failed; no exception
\* crosses the boundary, whatever happened to the invocations before it.
C1_OneStructuredResult ==
  \A c \in Calls :
    /\ hist[c].results = IF pc[c] = "done" THEN 1 ELSE 0
    /\ pc[c] # "done" => result[c] = NoResult
    /\ pc[c] = "done" =>
         /\ result[c].delivered = "result"
         /\ IF outcome[c].ok
            THEN ~result[c].isError /\ result[c].text = outcome[c].value
            ELSE /\ result[c].isError
                 /\ outcome[c].message # <<>>
                 /\ EndsWith(result[c].text, outcome[c].message)

\* invocation 1 failed in validation, and invocation 2, which arrived
\* after it, was answered with text
C1_Witness ==
  /\ pc[1] = "done" /\ result[1].isError /\ hist[1].performs = 0
  /\ pc[2] = "done" /\ ~result[2].isError /\ result[2].text # <<>>

\* C2: when validateMessages fails for an invocation of a chat tool, the
\* invocation never reads the timeout, arms a timer or issues a request.
C2_ValidationBeforeResources ==
  \A c \in Calls :
    (/\ pc[c] # "idle"
     /\ tool[c] \in ChatTools
     /\ validateMessages(Get(args[c], "messages"), tool[c]) # NoError)
    => /\ hist[c].envReads = 0
       /\ hist[c].timers = 0
       /\ hist[c].fetches = 0
       /\ timer[c] = "none"
       /\ request[c] = NoRequest

C2_Witness ==
  \E c \in Calls :
    /\ pc[c] = "done"
    /\ tool[c] = "perplexity_reason"
    /\ outcome[c] = Thrown(<<"Invalid message at index ", "1",
                             ": 'content' must be a string">>)

\* C3: a rejected transport call fails with the timeout error naming the
\* budget armed for the call exactly when the call's own signal was
\* aborted, and with the network error wrapping the cause otherwise.
C3_TransportFailureByCause ==
  \A c \in Calls :
    TransportRejected(c) =>
      /\ ~outcome[c].ok
      /\ aborted[c] <=> outcome[c].message = TimeoutText(c, NumStr(TIMEOUT_MS[c]))
      /\ ~aborted[c] <=>
           \E e \in NetworkErrors : outcome[c].message = NetworkText(c, e)

C3_Witness ==
  /\ TransportRejected(1) /\ aborted[1]
  /\ TransportRejected(2) /\ ~aborted[2]

\* C5: a call arms its timer with the setting as it was when the call
\* started, 300000 when it was unset, whatever the setting is changed to
\* afterwards.
BudgetOf(setting) ==
  CASE setting = JUndef -> 300000
    [] setting = JStr(<<"5", "0">>) -> 50

C5_TimeoutReadPerCall ==
  \A c \in Calls :
    hist[c].timers = 1 =>
      /\ hist[c].envReads = 1
      /\ TIMEOUT_MS[c] = JNum(BudgetOf(hist[c].env))
      /\ TransportRejected(c) /\ aborted[c] =>
           outcome[c].message = TimeoutText(c, ToString(BudgetOf(hist[c].env)))

\* two calls with different budgets, the setting changed again while the
\* second is in flight
C5_Witness ==
  /\ hist[1].timers = 1 /\ TIMEOUT_MS[1] = JNum(300000)
  /\ pc[2] = "fetch" /\ TIMEOUT_MS[2] = JNum(50)
  /\ timeoutEnv = JUndef

\* C6: a call of performChatCompletion or performSearch issues at most
\* one request, and exactly one when the credential is configured,
\* whatever its outcome; N calls issue N requests.
RECURSIVE SumOver(_, _)
SumOver(field, n) ==
  IF n = 0 THEN 0 ELSE hist[n][field] + SumOver(field, n - 1)

C6_SingleAttempt ==
  /\ \A c \in Calls :
       /\ hist[c].fetches <= 1
       /\ hist[c].fetches <= hist[c].performs
       /\ hist[c].performs = 1 /\ Truthy(apiKey) => hist[c].fetches = 1
  /\ Truthy(apiKey) => SumOver("fetches", NumCalls) = SumOver("performs", NumCalls)

\* a call that succeeded and one that timed out: two calls, two requests
C6_Witness ==
  /\ pc[1] = "done" /\ outcome[1].ok
  /\ TransportRejected(2) /\ aborted[2]
  /\ SumOver("fetches", NumCalls) = 2

\* C7: without a credential a call of performChatCompletion or
\* performSearch fails at once with the configuration error: it reads no
\* timeout, arms no timer and issues no request.  The server itself is
\* created and answers.
C7_CredentialFirst ==
  \A c \in Calls :
    (~Truthy(apiKey) /\ hist[c].performs = 1) =>
      /\ pc[c] = "done"
      /\ outcome[c] = Thrown(<<"PERPLEXITY_API_KEY environment variable is required">>)
      /\ result[c].delivered = "result" /\ result[c].isError
      /\ hist[c].envReads = 0
      /\ hist[c].timers = 0
      /\ hist[c].fetches = 0

C7_Witness ==
  /\ host = "server" /\ ~Truthy(apiKey)
  /\ hist[1].performs = 1 /\ tool[1] = "perplexity_ask"
  /\ hist[2].performs = 1 /\ tool[2] = "perplexity_search"

\* C8: a non-2xx status makes the call fail with the upstream error
\* carrying the status code, the status text and the diagnostic body, or
\* "Unable to parse error response" in the body's place when reading the
\* body failed.
C8_UpstreamError ==
  \A c \in Calls :
    (pc[c] = "done" /\ response[c] # NoResponse /\ ~Ok(response[c])) =>
      /\ ~outcome[c].ok
      /\ result[c].isError
      /\ outcome[c].message =
           <<ApiLabel(c), " error: ", ToString(response[c].status), " ",
             response[c].statusText, "\n">>
           \o (IF body[c].ok THEN body[c].value
               ELSE <<"Unable to parse error response">>)

C8_Witness ==
  /\ pc[1] = "done" /\ response[1].status = 500 /\ ~body[1].ok
  /\ pc[2] = "done" /\ response[2].status = 401 /\ body[2].ok

\* the event loop runs a due timer callback and settles an aborted
\* request; time does not stop while a timer is pending
FairSpec ==
  /\ Spec
  /\ WF_vars(Tick)
  /\ \A c \in Calls : WF_vars(TimerFires(c))
  /\ \A c \in Calls : WF_vars(FetchRejects(c, AbortError))

\* the upstream has answered invocation c, with a response or a failure
Answered(c) ==
  \/ response[c] # NoResponse
  \/ TransportRejected(c) /\ ~aborted[c]

TimedOut(c) ==
  /\ TransportRejected(c)
  /\ outcome[c] = Thrown(TimeoutText(c, NumStr(TIMEOUT_MS[c])))

\* C4: a call whose upstream never answers eventually fails with the
\* timeout error naming its budget B, and only after the timer armed at
\* B ms has fired: nothing but that timer aborts the request.
C4_TimeoutAfterBudget ==
  /\ [](\A c \in Calls :
          /\ aborted[c] => timer[c] = "fired" /\ elapsed[c] >= TIMEOUT_MS[c].v
          /\ TimedOut(c) => aborted[c])
  /\ \A c \in Calls : (pc[c] = "fetch") ~> (Answered(c) \/ TimedOut(c))

C4_Witness ==
  /\ TimedOut(1) /\ TIMEOUT_MS[1] = JNum(300000) /\ elapsed[1] = 300000
  /\ TimedOut(2) /\ TIMEOUT_MS[2] = JNum(50) /\ elapsed[2] = 50

(***************************************************************************)
(* One chat call and the bodies a 2xx response can carry.                  *)
(***************************************************************************)
NextParse ==
  \/ \E i \in ChatInvocations : Invoke(1, i.name, i.args)
  \/ FetchResolves(1, Response(200, "OK"))
  \/ \E r \in ParseReads : ChatJsonSettles(1, r)

SpecParse == Init /\ [][NextParse]_vars

\* performChatCompletion of server.ts has read the 2xx body of invocation c
ServerParsed(c) ==
  /\ host = "server"
  /\ pc[c] = "done"
  /\ request[c].fn = "chat"
  /\ response[c] # NoResponse /\ Ok(response[c])

ChoicesOf(c) == Get(body[c].value, "choices")

ChoicesMissingOrEmpty(c) ==
  /\ body[c].ok
  /\ \/ ChoicesOf(c).k # "array"
     \/ Len(ChoicesOf(c).v) = 0

FirstContentMissing(c) ==
  /\ body[c].ok
  /\ ChoicesOf(c).k = "array" /\ Len(ChoicesOf(c).v) > 0
  /\ LET message == Get(ChoicesOf(c).v[1], "message")
     IN  message.k # "object" \/ Get(message, "content").k # "string"

\* C9: a 2xx body that fails to parse gives "missing or empty choices
\* array" exactly when choices is missing, null, not an array or empty,
\* "missing message content" exactly when choices[0] is there and its
\* message is missing or message.content is not a string, and the generic
\* parse failure wrapping the cause in every other case.
C9_ParseFailureByBody ==
  \A c \in Calls :
    (ServerParsed(c) /\ ~outcome[c].ok) =>
      /\ outcome[c].message = <<"Invalid API response: missing or empty choices array">>
           <=> ChoicesMissingOrEmpty(c)
      /\ outcome[c].message = <<"Invalid API response: missing message content">>
           <=> FirstContentMissing(c)
      /\ (~ChoicesMissingOrEmpty(c) /\ ~FirstContentMissing(c)) =>
           /\ Len(outcome[c].message) > 1
           /\ outcome[c].message[1] = "Failed to parse JSON response from Perplexity API: "

\* the parts of C9 the code keeps: the two named failures are reported
\* for the bodies the claim names, and an unreadable body or a wrongly
\* typed top-level field gives the generic failure
C9_NamedFailuresReported ==
  \A c \in Calls :
    (ServerParsed(c) /\ ~outcome[c].ok) =>
      /\ ChoicesMissingOrEmpty(c) =>
           outcome[c].message = <<"Invalid API response: missing or empty choices array">>
      /\ FirstContentMissing(c) =>
           outcome[c].message = <<"Invalid API response: missing message content">>
      /\ ~body[c].ok =>
           outcome[c].message =
             <<"Failed to parse JSON response from Perplexity API: ",
               body[c].error.name, ": ">> \o body[c].error.message

\* a body whose first choice has its content and a wrongly typed
\* finish_reason is reported as a missing or empty choices array
C9_Witness ==
  /\ ServerParsed(1)
  /\ body[1] = ReadOk(ChatBody(JArr(<<ChoiceOf(Message(Str("answer"), JUndef), JNum(5))>>),
                               JUndef, JUndef))
  /\ outcome[1] = Thrown(<<"Invalid API response: missing or empty choices array">>)

\* C10: for a well-formed body with N >= 1 citations the returned text is
\* the content of choices[0], stripped when asked, then a blank line, the
\* line "Citations:" and the N lines "[i] <url>", i from 1 to N in the
\* order of the array; with no citations or an empty array it is the
\* content alone.
ContentOf(c) ==
  LET content == Get(Get(ChoicesOf(c).v[1], "message"), "content").v
  IN  IF stripThinking[c] THEN stripThinkingTokens(content) ELSE content

CitationsOf(c) == Get(body[c].value, "citations")

C10_CitationsBlock ==
  \A c \in Calls :
    (/\ pc[c] = "done" /\ outcome[c].ok /\ request[c].fn = "chat"
     /\ CitationsOf(c).k \in {"undefined", "array"})
    => LET text == outcome[c].value
           base == ContentOf(c)
           n == IF CitationsOf(c).k = "array" THEN Len(CitationsOf(c).v) ELSE 0
           at == Len(base) + 4
       IN  IF n = 0 THEN text = base
           ELSE /\ Len(text) = at + 5 * n
                /\ SubSeq(text, 1, at) = base \o <<"\n", "\n", "Citations:", "\n">>
                /\ \A i \in 1..n :
                     SubSeq(text, at + 5 * i - 4, at + 5 * i) =
                       <<"[", ToString(i), "] ", CitationsOf(c).v[i].v[1], "\n">>
                /\ result[c] = Delivered(FALSE, text)

\* two citations, not in alphabetical order, after stripped content
C10_Witness ==
  /\ pc[1] = "done" /\ outcome[1].ok /\ stripThinking[1]
  /\ CitationsOf(1) = JArr(<<Str("https://b"), Str("https://a")>>)
  /\ ContentOf(1) = <<"answer">>
  /\ Len(outcome[1].value) = 15

\* a body without citations comes back as its content alone
C10_WitnessNone ==
  /\ pc[1] = "done" /\ outcome[1].ok
  /\ CitationsOf(1) = JUndef
  /\ outcome[1].value = ContentOf(1)

\* C11: a 2xx body whose choices[0].message.content is a string and whose
\* citations field is there but is not an array makes performChatCompletion
\* return that content, with no citations block; the call does not fail.
\* (Stated for bodies with nothing else wrong in them.)
C11_NonArrayCitationsIgnored ==
  \A c \in Calls :
    (/\ pc[c] = "done" /\ request[c].fn = "chat"
     /\ response[c] # NoResponse /\ Ok(response[c])
     /\ body[c].ok
     /\ ~ChoicesMissingOrEmpty(c) /\ ~FirstContentMissing(c)
     /\ CitationsOf(c).k \notin {"undefined", "array"}
     /\ ChatCompletionResponseSchema(body[c].value) \subseteq {<<"citations">>})
    => /\ outcome[c].ok
       /\ outcome[c].value = ContentOf(c)

\* the body of the test "should handle non-array citations", read by
\* performChatCompletion of server.ts: the schema rejects it
C11_Witness ==
  /\ ServerParsed(1)
  /\ body[1] = ReadOk(ChatBody(JArr(<<ChoiceOf(Message(Str("answer"), JUndef), JUndef)>>),
                               Str("not-an-array"), JUndef))
  /\ outcome[1] = Thrown(<<"Failed to parse JSON response from Perplexity API: ",
                           "ZodError", ": ", "issues">>)

(***************************************************************************)
(* One chat call whose 2xx body carries any content up to MaxTextLen.      *)
(***************************************************************************)
\* the contents the body awaited by invocation c can carry
BodiesAwaited(c) == IF pc[c] = "json" THEN Texts ELSE {}

NextStrip ==
  \/ \E i \in StripInvocations : Invoke(1, i.name, i.args)
  \/ FetchResolves(1, Response(200, "OK"))
  \/ \E t \in BodiesAwaited(1) : ChatJsonSettles(1, ReadOk(TextBody(t)))

SpecStrip == Init /\ [][NextStrip]_vars

\* the call of invocation c has returned the content of its body
Answer(c) ==
  pc[c] = "done" /\ outcome[c].ok /\ request[c].fn = "chat" /\ body[c].ok

RawContent(c) == Get(Get(ChoicesOf(c).v[1], "message"), "content").v

\* the span opened at i ends at the nearest closing tag after i; 0 when i
\* opens no span
SpanEnd(t, i) ==
  IF t[i] = "<think>" /\ \E j \in (i + 1)..Len(t) : t[j] = "</think>"
  THEN CHOOSE j \in (i + 1)..Len(t) :
         /\ t[j] = "</think>"
         /\ \A k \in (i + 1)..(j - 1) : t[k] # "</think>"
  ELSE 0

\* the text at and after i without its spans, scanning left to right
RECURSIVE WithoutSpans(_, _)
WithoutSpans(t, i) ==
  IF i > Len(t) THEN <<>>
  ELSE IF SpanEnd(t, i) # 0 THEN WithoutSpans(t, SpanEnd(t, i) + 1)
  ELSE <<t[i]>> \o WithoutSpans(t, i + 1)

Blank(piece) == piece \in {" ", "\n", "\t"}

\* t from its first to its last piece that is not whitespace
Trimmed(t) ==
  LET solid == {i \in 1..Len(t) : ~Blank(t[i])}
  IN  IF solid = {} THEN <<>>
      ELSE SubSeq(t, CHOOSE i \in solid : \A j \in solid : i <= j,
                     CHOOSE i \in solid : \A j \in solid : j <= i)

\* C12: stripThinkingTokens removes each span from an opening tag to the
\* nearest closing tag after it, left to right, and trims the rest; a tag
\* that opens or closes no span stays.  It is applied only when the
\* stripThinking flag is true.
C12_SpansRemovedThenTrimmed ==
  \A c \in Calls :
    Answer(c) =>
      outcome[c].value =
        IF stripThinking[c] THEN Trimmed(WithoutSpans(RawContent(c), 1))
        ELSE RawContent(c)

\* two spans, the second holding another tag and a newline, around text,
\* and an orphan closing tag kept
C12_Witness ==
  /\ Answer(1) /\ stripThinking[1]
  /\ RawContent(1) = <<"<think>", "</think>", "a", "</think>", " ">>
  /\ outcome[1].value = <<"a", "</think>">>

\* the flag off: the content comes back with its spans and its whitespace
C12_WitnessOff ==
  /\ Answer(1) /\ ~stripThinking[1] /\ tool[1] = "perplexity_reason"
  /\ RawContent(1) = <<" ", "<think>", "a", "</think>">>
  /\ outcome[1].value = RawContent(1)

HasTag(t, tag) == \E i \in 1..Len(t) : t[i] = tag
\* an opening tag, and no closing tag after the first one
OnlyUnclosed(t) ==
  /\ HasTag(t, "<think>")
  /\ \A i, j \in 1..Len(t) : (t[i] = "<think>" /\ i < j) => t[j] # "</think>"

\* C13 as stated: text without <think> tags comes back trimmed, and text
\* with an unclosed <think> tag comes back unchanged piece for piece,
\* leading and trailing whitespace included.
C13_UnclosedUnchanged ==
  \A c \in Calls :
    (Answer(c) /\ stripThinking[c]) =>
      /\ (~HasTag(RawContent(c), "<think>") /\ ~HasTag(RawContent(c), "</think>"))
           => outcome[c].value = Trimmed(RawContent(c))
      /\ OnlyUnclosed(RawContent(c)) => outcome[c].value = RawContent(c)

\* C13 amended: text with an unclosed <think> tag comes back trimmed like
\* text without tags, and otherwise unchanged.
C13_UnclosedTrimmedOnly ==
  \A c \in Calls :
    (/\ Answer(c) /\ stripThinking[c]
     /\ \/ ~HasTag(RawContent(c), "<think>") /\ ~HasTag(RawContent(c), "</think>")
        \/ OnlyUnclosed(RawContent(c)))
    => outcome[c].value = Trimmed(RawContent(c))

C13_Witness ==
  /\ Answer(1) /\ stripThinking[1]
  /\ RawContent(1) = <<" ", "<think>", "a", "\n">>
  /\ outcome[1].value = <<"<think>", "a">>

(***************************************************************************)
(* One invocation of a chat tool with any messages argument.               *)
(***************************************************************************)
\* the messages an invocation that has not arrived yet can carry
MessagesOffered(c) == IF pc[c] = "idle" THEN MessagesVals ELSE {}

NextValidate ==
  \E name \in ChatTools, m \in MessagesOffered(1) :
    Invoke(1, name, JObj([messages |-> m]))

SpecValidate == Init /\ [][NextValidate]_vars

\* invocation c has called validateMessages on its messages argument: the
\* handler of index.ts always does, the callback of server.ts runs once
\* the arguments have passed the tool's input schema
Validated(c) ==
  /\ pc[c] # "idle"
  /\ tool[c] \in ChatTools
  /\ IF host = "index" THEN args[c].k = "object" ELSE InputSchema(tool[c], args[c])

MessagesOf(c) == Get(args[c], "messages")

\* C14: when messages is not an array, validateMessages fails with a
\* message that names the calling tool and holds no element index.
C14_NonArrayNamesTool ==
  \A c \in Calls :
    (Validated(c) /\ MessagesOf(c).k # "array") =>
      /\ pc[c] = "done"
      /\ ~outcome[c].ok
      /\ outcome[c].message =
           <<"Invalid arguments for ", tool[c], ": 'messages' must be an array">>
      /\ \A i \in 1..Len(outcome[c].message) :
           outcome[c].message[i] \notin {"0", "1", "2", "3", "4"}
      /\ hist[c].performs = 0

C14_Witness ==
  /\ Validated(1) /\ tool[1] = "perplexity_reason"
  /\ MessagesOf(1) = GoodMessage
  /\ result[1] = Delivered(TRUE, <<"Error: ", "Invalid arguments for ", "perplexity_reason",
                                   ": 'messages' must be an array">>)

\* the elements C15 calls offending: not an object, no string role, or no
\* string content
Offends(e) ==
  \/ e.k # "object"
  \/ Get(e, "role").k # "string"
  \/ Get(e, "content").k # "string"

\* as the code has it: a role must be a string that is not empty
OffendsOrEmptyRole(e) == Offends(e) \/ Get(e, "role") = JStr(<<>>)

FirstIndex(a, Bad(_)) ==
  CHOOSE i \in 1..Len(a) : Bad(a[i]) /\ \A j \in 1..(i - 1) : ~Bad(a[j])

NamesFirst(c, Bad(_)) ==
  LET a == MessagesOf(c).v
  IN  IF \E i \in 1..Len(a) : Bad(a[i])
      THEN /\ pc[c] = "done"
           /\ ~outcome[c].ok
           /\ Len(outcome[c].message) = 3
           /\ outcome[c].message[1] = "Invalid message at index "
           /\ outcome[c].message[2] = ToString(FirstIndex(a, Bad) - 1)
           /\ hist[c].performs = 0
      ELSE hist[c].performs = 1

\* C15 as stated: for an array with an element that is not an object or
\* lacks a string role or a string content, validateMessages fails naming
\* the 0-based index of the first such element; an array whose elements
\* all have a string role and a string content passes.
C15_FirstOffenderNamed ==
  \A c \in Calls :
    (Validated(c) /\ MessagesOf(c).k = "array") => NamesFirst(c, Offends)

\* C15 amended: the same with "a string role" read as "a string role that
\* is not empty".
C15_FirstOffenderOrEmptyRoleNamed ==
  \A c \in Calls :
    (Validated(c) /\ MessagesOf(c).k = "array") => NamesFirst(c, OffendsOrEmptyRole)

\* a good message, then one without content, then one that is null
C15_Witness ==
  /\ Validated(1)
  /\ MessagesOf(1) = JArr(<<GoodMessage, NoContentMessage, JNull>>)
  /\ outcome[1] = Thrown(<<"Invalid message at index ", "1", ": 'content' must be a string">>)

(***************************************************************************)
(* One search call and the bodies a 2xx response can carry.                *)
(***************************************************************************)
\* the bodies the read awaited by invocation c can give
SearchBodiesAwaited(c) == IF pc[c] = "json" THEN SearchBodies ELSE {}

NextSearch ==
  \/ Invoke(1, "perplexity_search", ArgsQuery)
  \/ FetchResolves(1, Response(200, "OK"))
  \/ \E b \in SearchBodiesAwaited(1) : SearchJsonSettles(1, ReadOk(b))

SpecSearch == Init /\ [][NextSearch]_vars

\* performSearch of invocation c has read a 2xx body
SearchRead(c) ==
  /\ pc[c] = "done" /\ request[c].fn = "search"
  /\ response[c] # NoResponse /\ Ok(response[c])
  /\ body[c].ok

ResultsOf(c) == Get(body[c].value, "results")

\* C16: a 2xx search body whose results field is missing or is not an
\* array makes performSearch return "No search results found."; the call
\* does not fail.
C16_NoResultsSentinel ==
  \A c \in Calls :
    (SearchRead(c) /\ ResultsOf(c).k # "array") =>
      outcome[c] = Returned(<<"No search results found.">>)

\* performSearch of server.ts, given a body without results
C16_Witness ==
  /\ host = "server" /\ SearchRead(1)
  /\ ResultsOf(1) = JUndef
  /\ outcome[1] = Thrown(<<"Failed to parse JSON response from Perplexity Search API: ",
                           "ZodError", ": ", "issues">>)

\* the text of a title or url: a null is written "null"
Shown(v) == IF v.k = "null" THEN <<"null">> ELSE v.v

\* the lines of the result r, the i-th
Block(r, i) ==
  <<ToString(i), ". **">> \o Shown(Get(r, "title")) \o <<"**", "\n">>
  \o <<"   URL: ">> \o Shown(Get(r, "url")) \o <<"\n">>
  \o (IF Get(r, "snippet").k = "string" /\ Get(r, "snippet").v # <<>>
      THEN <<"   ">> \o Get(r, "snippet").v \o <<"\n">> ELSE <<>>)
  \o (IF Get(r, "date").k = "string" /\ Get(r, "date").v # <<>>
      THEN <<"   Date: ">> \o Get(r, "date").v \o <<"\n">> ELSE <<>>)
  \o <<"\n">>

RECURSIVE Blocks(_, _)
Blocks(a, i) == IF i > Len(a) THEN <<>> ELSE Block(a[i], i) \o Blocks(a, i + 1)

Holds(text, piece) == \E i \in 1..Len(text) : text[i] = piece

\* C17: for a results array of length N the text is the header "Found N
\* search results:", a blank line, and for each result in order, counted
\* from 1, its title line, its URL line, its snippet line if the snippet
\* is truthy, its Date line if the date is truthy, and a blank line.  No
\* "undefined" is written, a "null" only for a null title or url, and no
\* other field of a result.
C17_ResultsFormatted ==
  \A c \in Calls :
    (SearchRead(c) /\ outcome[c].ok /\ ResultsOf(c).k = "array") =>
      LET a == ResultsOf(c).v
          text == outcome[c].value
      IN  /\ text = <<"Found ", ToString(Len(a)), " search results:", "\n", "\n">>
                    \o Blocks(a, 1)
          /\ ~Holds(text, "undefined")
          /\ ~Holds(text, "12345")
          /\ Holds(text, "null") <=>
               \E i \in 1..Len(a) : JNull \in {Get(a[i], "title"), Get(a[i], "url")}

\* a result with a null title and no snippet, then one with a null url,
\* a snippet and a null date
C17_Witness ==
  /\ SearchRead(1) /\ outcome[1].ok
  /\ ResultsOf(1) = JArr(<<ResultOf(JNull, Str("https://example.com"), JUndef, Str("2025-01-01")),
                           ResultOf(Str("Test"), JNull, Str("snippet"), JNull)>>)
  /\ Len(outcome[1].value) = 5 + 12 + 12

(***************************************************************************)
(* Two invocations with every mix of optional arguments.                   *)
(***************************************************************************)
\* the invocations that can arrive as invocation c
OptionsOffered(c) == IF pc[c] = "idle" THEN OptionInvocations ELSE {}

NextOptions ==
  \E c \in {1, 2} : \E i \in OptionsOffered(c) : Invoke(c, i.name, i.args)

SpecOptions == Init /\ [][NextOptions]_vars

\* C18: an optional scalar argument is used as given when it has the
\* expected type and replaced by its default otherwise, never coerced:
\* max_results 10 unless a number, max_tokens_per_page 1024 unless a
\* number, country left out unless a string, strip_thinking false unless
\* a boolean.
C18_DefaultsNotCoerced ==
  \A c \in Calls :
    /\ request[c].fn = "search" =>
         LET sent == request[c].body
             given(key) == Get(args[c], key)
         IN  /\ Get(sent, "max_results") =
                  IF given("max_results").k = "number" THEN given("max_results")
                  ELSE JNum(10)
             /\ Get(sent, "max_tokens_per_page") =
                  IF given("max_tokens_per_page").k = "number"
                  THEN given("max_tokens_per_page") ELSE JNum(1024)
             /\ IF given("country").k = "string" /\ given("country").v # <<>>
                THEN Get(sent, "country") = given("country")
                ELSE "country" \notin DOMAIN sent.v
    /\ request[c].fn = "chat" =>
         stripThinking[c] = (/\ tool[c] # "perplexity_ask"
                             /\ Get(args[c], "strip_thinking") = JBool(TRUE))

\* "5" for max_results and a number for country in a search, and "true"
\* for strip_thinking in a research call, both sent on with the defaults
C18_Witness ==
  /\ args[1] = SearchArgs(Str("5"), JNum(512), JNum(1))
  /\ request[1].fn = "search"
  /\ request[1].body = JObj([query |-> Str("q"), max_results |-> JNum(10),
                             max_tokens_per_page |-> JNum(512)])
  /\ tool[2] = "perplexity_research"
  /\ Get(args[2], "strip_thinking") = Str("true")
  /\ request[2].fn = "chat" /\ ~stripThinking[2]

(***************************************************************************)
(* Invocations under names no tool is registered under.                    *)
(***************************************************************************)
NextUnknown ==
  \E c \in Calls, i \in UnknownInvocations : Invoke(c, i.name, i.args)

SpecUnknown == Init /\ [][NextUnknown]_vars

Unregistered(c) == pc[c] # "idle" /\ tool[c] \notin RegisteredTools

\* the invocation ended in a result flagged isError without a throw
\* crossing the boundary and without a call of performChatCompletion,
\* performSearch or proxyAwareFetch
FailedQuietly(c) ==
  /\ pc[c] = "done"
  /\ result[c].delivered = "result" /\ result[c].isError
  /\ request[c] = NoRequest
  /\ hist[c].performs = 0 /\ hist[c].fetches = 0 /\ hist[c].results = 1

\* the HTTP exchange ends with status 200 and the id of the request
ExchangeCompletes(c) ==
  \A id \in RequestIds :
    LET answer == McpPost(id, result[c])
    IN  /\ answer.status = 200 /\ answer.id = id
        /\ answer.kind = "result" /\ answer.isError

\* C19 as stated: an invocation naming a tool that is not registered
\* produces a structured failure result (isError true) whose text
\* contains "not found"; it does not throw, issues no outbound request,
\* and the HTTP exchange completes with the request's id echoed.
C19_UnknownToolNotFound ==
  \A c \in Calls :
    Unregistered(c) =>
      /\ FailedQuietly(c)
      /\ Holds(result[c].text, " not found")
      /\ ExchangeCompletes(c)

\* C19, amended: an invocation naming a tool that is not registered
\* produces a structured failure result (isError true) without a throw
\* and without an outbound request.  In server.ts its text is "Tool
\* <name> not found" and the HTTP exchange completes with status 200 and
\* the request's id echoed; in index.ts its text is "Unknown tool:
\* <name>" when the invocation carries arguments and "Error: No
\* arguments provided" when it carries none.
C19_UnknownToolRefused ==
  \A c \in Calls :
    Unregistered(c) =>
      /\ FailedQuietly(c)
      /\ host = "server" =>
           /\ result[c].text = <<"Tool ", tool[c], " not found">>
           /\ ExchangeCompletes(c)
      /\ host = "index" =>
           result[c].text = IF Truthy(args[c]) THEN <<"Unknown tool: ", tool[c]>>
                            ELSE <<"Error: ", "No arguments provided">>

\* the server of server.ts refuses a name with a query as arguments, and
\* then serves a search
C19_Witness ==
  /\ host = "server"
  /\ tool[1] = "nonexistent_tool" /\ args[1] = ArgsQuery
  /\ result[1] = Delivered(TRUE, <<"Tool ", "nonexistent_tool", " not found">>)
  /\ McpPost(JNum(2), result[1]).id = JNum(2)
  /\ tool[2] = "perplexity_search" /\ pc[2] = "fetch"

\* index.ts refuses a name with an empty object as arguments
C19_WitnessIndex ==
  /\ host = "index"
  /\ tool[1] = "nonexistent_tool" /\ args[1] = JObj(<<>>)
  /\ result[1] = Delivered(TRUE, <<"Unknown tool: ", "nonexistent_tool">>)

(***************************************************************************)
(* Calls under changing proxy settings.                                    *)
(***************************************************************************)
NextProxy ==
  \/ \E c \in Calls, i \in ProxyInvocations : Invoke(c, i.name, i.args)
  \/ \E name \in ProxyNames : \E setting \in ProxySettings(name) :
       SetProxy(name, setting)

SpecProxy == Init /\ [][NextProxy]_vars

\* the first non-empty string of a sequence of settings, undefined if
\* there is none
RECURSIVE FirstNonEmpty(_)
FirstNonEmpty(settings) ==
  IF settings = <<>> THEN JUndef
  ELSE IF Head(settings).k = "string" /\ Head(settings).v # <<>>
       THEN Head(settings)
       ELSE FirstNonEmpty(Tail(settings))

\* invocation c makes its outbound call in this step
Calling(c) == request[c] = NoRequest /\ request'[c] # NoRequest

PastTransport(c) == pc[c] \in {"json", "errText", "done"}

\* C25: once a call has finished its timer is not pending: it was cleared
\* where the transport call resolved and where it rejected (or had fired
\* before the rejection), a call that armed no timer has none, and a
\* timer's callback runs only while the transport call is awaited.
C25_TimerNeverLeftArmed ==
  /\ [](\A c \in Calls :
          /\ pc[c] = "done" => timer[c] # "armed"
          /\ response[c] # NoResponse => timer[c] = "cleared"
          /\ TransportRejected(c) => timer[c] \in {"cleared", "fired"}
          /\ (pc[c] = "done" /\ hist[c].timers = 0) => timer[c] = "none")
  /\ [][\A c \in Calls :
          (timer[c] # "fired" /\ timer'[c] = "fired") =>
            pc[c] = "fetch" /\ ~PastTransport(c)']_vars

\* one call finished after its response, one after a network failure,
\* both with the timer cleared
C25_Witness ==
  /\ pc[1] = "done" /\ response[1] # NoResponse /\ timer[1] = "cleared"
  /\ pc[2] = "done" /\ TransportRejected(2) /\ ~aborted[2]
  /\ timer[2] = "cleared"

(***************************************************************************)
(* Concurrent calls.                                                       *)
(***************************************************************************)
\* what invocation c owns: its timer, its signal and how far it is
Own(c) == <<pc[c], timer[c], aborted[c], response[c], body[c], outcome[c]>>

\* the outcome of a finished call, from its own request, response, body
\* and signal
OutcomeFromOwn(c) ==
  IF response[c] = NoResponse
  THEN IF aborted[c] THEN Thrown(TimeoutText(c, NumStr(TIMEOUT_MS[c])))
       ELSE outcome[c]
  ELSE IF ~Ok(response[c])
  THEN Thrown(UpstreamFailure(request[c].fn, response[c], body[c]))
  ELSE IF request[c].fn = "chat" THEN ChatResult(host, body[c], stripThinking[c])
  ELSE SearchResult(host, body[c])

\* C27: each call owns its timer and its signal.  A timer that fires
\* aborts the request of its own call and of no other, a step that
\* clears one call's timer leaves every other call's timer as it is, a
\* step of one call changes nothing another call owns, and the outcome
\* of a call follows from its own request, response, body and signal:
\* it is the timeout exactly when its own timer fired.
C27_CallsIsolated ==
  /\ [][\A c \in Calls :
          /\ (~aborted[c] /\ aborted'[c]) =>
                /\ timer[c] = "armed" /\ timer'[c] = "fired"
                /\ \A d \in Calls \ {c} : aborted'[d] = aborted[d]
          /\ (timer[c] # timer'[c]) =>
                \A d \in Calls \ {c} : timer'[d] = timer[d]
          /\ (Own(c) # Own(c)') =>
                \A d \in Calls \ {c} : Own(d)' = Own(d)]_vars
  /\ [](\A c \in Calls :
          (pc[c] = "done" /\ hist[c].fetches = 1) =>
            /\ outcome[c] = OutcomeFromOwn(c)
            /\ TimedOut(c) <=> (TransportRejected(c) /\ timer[c] = "fired"))

\* the second call times out while the first, started before it, is
\* still awaited; the first then ends with its response
C27_Witness ==
  /\ TimedOut(2) /\ timer[2] = "fired"
  /\ pc[1] = "done" /\ Ok(response[1]) /\ outcome[1].ok
  /\ ~aborted[1] /\ timer[1] = "cleared"
  /\ elapsed[1] >= elapsed[2]

(***************************************************************************)
(* An upstream that stops after the response's headers.                    *)
(***************************************************************************)
InFlight(c) == pc[c] \in {"fetch", "json", "errText"}

\* C28: a call with a credential eventually finishes, provided its timer
\* is allowed to fire: also when the upstream sends the headers of a
\* response and never the body, the call ends, with the timeout error.
C28_CallsFinish ==
  \A c \in Calls : InFlight(c) ~> (pc[c] = "done")

\* the headers of a 2xx response have arrived, the timer is cleared and
\* the body is awaited with nothing left to end the wait
C28_Witness ==
  /\ pc[1] = "json" /\ Ok(response[1])
  /\ timer[1] = "cleared" /\ ~aborted[1]
  /\ ~ENABLED Tick /\ ~ENABLED TimerFires(1)

(***************************************************************************)
(* Calls under every kind of timeout setting.                              *)
(***************************************************************************)
NextBudget ==
  \/ \E s \in BudgetSettings : SetTimeout(s)
  \/ \E c \in Calls : Invoke(c, "perplexity_ask", ArgsGood)
  \/ Tick
  \/ \E c \in Calls : TimerFires(c)
  \/ \E c \in Calls : FetchRejects(c, AbortError)

SpecBudget == Init /\ [][NextBudget]_vars

\* the setting is the decimal numeral of a positive integer
IsPositiveInteger(env) ==
  /\ env.k = "string" /\ env.v # <<>>
  /\ \A i \in 1..Len(env.v) : IsDigit(env.v[i])
  /\ \E i \in 1..Len(env.v) : env.v[i] # "0"

\* C29: a call arms its timer with a positive integer number of
\* milliseconds: the configured value when the setting is a positive
\* integer, and 300000 when it is unset, empty, non-numeric, zero or
\* negative; no call is armed with a budget that elapses at once.
C29_BudgetPositive ==
  \A c \in Calls :
    hist[c].timers = 1 =>
      /\ TIMEOUT_MS[c].k = "number" /\ TIMEOUT_MS[c].v > 0
      /\ TIMEOUT_MS[c] = IF IsPositiveInteger(hist[c].env)
                         THEN JNum(ReadDigits(hist[c].env.v, 0, FALSE).value)
                         ELSE JNum(300000)
      /\ TimerDelay(TIMEOUT_MS[c]) = TIMEOUT_MS[c].v

\* with the setting "abc" the budget is NaN and the call times out
\* after one millisecond
C29_Witness ==
  /\ hist[1].env = JStr(<<"a", "b", "c">>)
  /\ TIMEOUT_MS[1] = NaN
  /\ elapsed[1] = 1
  /\ outcome[1] = Thrown(TimeoutText(1, "NaN"))

(***************************************************************************)
(* Stripping applied to its own result.                                    *)
(***************************************************************************)
TagBodiesAwaited(c) == IF pc[c] = "json" THEN TagTexts ELSE {}

NextTwice ==
  \/ \E i \in StripInvocations : Invoke(1, i.name, i.args)
  \/ FetchResolves(1, Response(200, "OK"))
  \/ \E t \in TagBodiesAwaited(1) : ChatJsonSettles(1, ReadOk(TextBody(t)))

SpecTwice == Init /\ [][NextTwice]_vars

\* the call of invocation c has returned its content stripped
Stripped(c) == Answer(c) /\ stripThinking[c]

\* an opening tag with a closing tag after it
HasSpan(t) ==
  \E i, j \in 1..Len(t) : i < j /\ t[i] = OpenTag /\ t[j] = CloseTag

\* stripping the text again returns the same string
Fixed(text) == Joined(stripThinkingTokens(text)) = Joined(text)

\* C30 as stated: stripThinkingTokens is idempotent, and its result
\* holds no complete span.
C30_Idempotent ==
  \A c \in Calls :
    Stripped(c) =>
      /\ Fixed(outcome[c].value)
      /\ ~HasSpan(Joined(outcome[c].value))

\* C30, amended: stripping a result again returns it unchanged when the
\* result holds no complete span; it holds one only when removing a span
\* has joined the text around it into a tag, and never when every tag of
\* the text is written in one piece.
C30_IdempotentUnlessJoined ==
  \A c \in Calls :
    Stripped(c) =>
      LET out == outcome[c].value
          whole == \A i \in 1..Len(RawContent(c)) :
                     RawContent(c)[i] \notin {"<thi", "nk>"}
      IN  /\ ~HasSpan(Joined(out)) => Fixed(out)
          /\ HasSpan(Joined(out)) => ~HasSpan(out)
          /\ whole => Fixed(out) /\ ~HasSpan(Joined(out))

\* a span, text and whitespace: the result is the text, and stripping
\* it again changes nothing
C30_Witness ==
  /\ Stripped(1)
  /\ RawContent(1) = <<OpenTag, "a", CloseTag, "a", " ">>
  /\ outcome[1].value = <<"a">>
  /\ stripThinkingTokens(outcome[1].value) = <<"a">>

\* "<thi<think></think>nk></think>": the result is "<think></think>",
\* which a second application empties
C30_WitnessJoined ==
  /\ Stripped(1)
  /\ RawContent(1) = <<"<thi", OpenTag, CloseTag, "nk>", CloseTag>>
  /\ outcome[1].value = <<"<thi", "nk>", CloseTag>>
  /\ stripThinkingTokens(outcome[1].value) = <<>>

C22_ChannelFollowsConnection ==
  /\ [](mode = "stateless" =>
          /\ live = <<>>
          /\ \A r \in Requests : session[r] = NoSession /\ channel[r] = conn[r])
  /\ [][\A r \in Requests :
          (channel[r] # "closed" /\ channel'[r] = "closed") =>
            /\ conn[r] = "open" /\ conn'[r] = "closed"
            /\ \A q \in Requests \ {r} : channel'[q] = channel[q]]_vars

\* the peer of the first request left while its tool call was in flight
\* and its channel is closed; the second request, answered by the catch
\* block, still has its connection and its channel
C22_Witness ==
  /\ conn[1] = "closed" /\ channel[1] = "closed" /\ toolCall[1] = "inflight"
  /\ res[1].started = 0
  /\ res[2].status = 500
  /\ conn[2] = "open" /\ channel[2] = "open"

\* every connection has closed, after a result, a failure and a call
\* whose result found its channel closed
C22_WitnessAllClosed ==
  /\ \A r \in Requests : conn[r] = "closed" /\ channel[r] = "closed"
  /\ res[1].status = 200
  /\ toolCall[2] = "done" /\ res[2].started = 0 /\ logged[2] = 1

(***************************************************************************)
(* The handler of the /mcp endpoint throws.                                *)
(***************************************************************************)
Fallback == [started |-> 1, status |-> 500, id |-> JNull, from |-> 0, text |-> <<>>]

\* C26: at most one response is started for a request.  When the try
\* block throws, the error is logged in the catch block; the 500 answer
\* with a null id is written if no response was started, and nothing is
\* written if one was; a result that arrives after the 500 answer is not
\* written either.
C26_OneResponse ==
  /\ [](\A r \in Requests :
          /\ res[r].started <= 1
          /\ res[r].status = 500 => res[r] = Fallback /\ logged[r] >= 1)
  /\ [][\A r \in Requests :
          /\ (conn[r] = "none" /\ logged'[r] = 1) =>
                /\ res'[r].started = 1
                /\ res'[r] # Fallback => res'[r] = Written(NoRes, 200, rpcId'[r], r)
          /\ res[r].started = 1 => res'[r] = res[r]]_vars

\* the handler threw after the transport had answered the first request,
\* which keeps that answer; it threw with the tool call of the second in
\* flight, which got the 500 answer, and the result that came later was
\* not written
C26_Witness ==
  /\ logged[1] = 1 /\ res[1] = Written(NoRes, 200, rpcId[1], 1)
  /\ res[2] = Fallback /\ toolCall[2] = "done" /\ logged[2] = 2
  /\ conn[2] = "open"

(***************************************************************************)
(* The transport session manager: the deployment of the /mcp endpoint that *)
(* keeps one channel per session in a live-session map.                    *)
(***************************************************************************)
\* the session identifier header of a request: 0 is no header; an
\* identifier is the number of the request that created the session
SessionHeaders == 0..NumVisits

Methods == {"POST", "GET"}

\* the body of the rejection of a read-side request
NoSessionText == <<"Bad Request: no valid session identifier">>

Rejected(sent) ==
  [started |-> sent.started + 1, status |-> 400, id |-> JNull, from |-> 0,
   text |-> NoSessionText]

\* the map without the session S
Without(map, S) == [k \in DOMAIN map \ {S} |-> map[k]]

\* request v is the next to arrive at the endpoint
Arrives(v) ==
  /\ mode = "sessions"
  /\ conn[v] = "none"
  /\ \A u \in Visits : u < v => conn[u] # "none"

\* a write-side request: a known session identifier reuses the registered
\* channel; with no identifier, or one that is not in the live map, a new
\* channel is created and registered under a fresh identifier
SessionPost(v, header) ==
  /\ Arrives(v)
  /\ conn' = [conn EXCEPT ![v] = "open"]
  /\ IF header \in DOMAIN live
       THEN /\ session' = [session EXCEPT ![v] =
                  [method |-> "POST", presented |-> header, served |-> header]]
            /\ res' = [res EXCEPT ![v] = Written(res[v], 200, JNull, live[header])]
            /\ UNCHANGED <<channel, live>>
       ELSE /\ channel' = [channel EXCEPT ![v] = "open"]
            /\ live' = live @@ (v :> v)
            /\ session' = [session EXCEPT ![v] =
                  [method |-> "POST", presented |-> header, served |-> v]]
            /\ res' = [res EXCEPT ![v] = Written(res[v], 200, JNull, v)]
  /\ UNCHANGED <<coreVars, mode, serverTransport, captured, toolCall, rpcId,
                 logged>>

\* a read-side request that opens a session for an identifier it does
\* not know, as a write-side request does
SessionGetCreates(v, header) ==
  /\ Arrives(v)
  /\ conn' = [conn EXCEPT ![v] = "open"]
  /\ IF header \in DOMAIN live
       THEN /\ session' = [session EXCEPT ![v] =
                  [method |-> "GET", presented |-> header, served |-> header]]
            /\ res' = [res EXCEPT ![v] = Written(res[v], 200, JNull, live[header])]
            /\ UNCHANGED <<channel, live>>
       ELSE /\ channel' = [channel EXCEPT ![v] = "open"]
            /\ live' = live @@ (v :> v)
            /\ session' = [session EXCEPT ![v] =
                  [method |-> "GET", presented |-> header, served |-> v]]
            /\ res' = [res EXCEPT ![v] = Written(res[v], 200, JNull, v)]
  /\ UNCHANGED <<coreVars, mode, serverTransport, captured, toolCall, rpcId,
                 logged>>

\* a read-side request: it is attached to the channel of the session it
\* names; with no identifier, or one that is not in the live map, it is
\* rejected with status 400 and nothing is created
SessionGet(v, header) ==
  /\ Arrives(v)
  /\ conn' = [conn EXCEPT ![v] = "open"]
  /\ IF header \in DOMAIN live
       THEN /\ session' = [session EXCEPT ![v] =
                  [method |-> "GET", presented |-> header, served |-> header]]
            /\ res' = [res EXCEPT ![v] = Written(res[v], 200, JNull, live[header])]
       ELSE /\ session' = [session EXCEPT ![v] =
                  [method |-> "GET", presented |-> header, served |-> 0]]
            /\ res' = [res EXCEPT ![v] = Rejected(res[v])]
  /\ UNCHANGED <<coreVars, mode, channel, live, serverTransport, captured,
                 toolCall, rpcId, logged>>

\* a close notification that closes the channel and leaves the session
\* in the live map
SessionCloseKeepsEntry(S) ==
  /\ mode = "sessions"
  /\ S \in DOMAIN live
  /\ channel[live[S]] = "open"
  /\ channel' = [channel EXCEPT ![live[S]] = "closed"]
  /\ conn' = [v \in Slots |->
                IF session[v].served = S /\ conn[v] = "open"
                  THEN "closed" ELSE conn[v]]
  /\ UNCHANGED <<coreVars, mode, live, serverTransport, captured, toolCall,
                 rpcId, res, logged, session>>

\* the close notification of the channel of session S: the connections
\* attached to it are closed and the session leaves the live map
SessionClose(S) ==
  /\ mode = "sessions"
  /\ S \in DOMAIN live
  /\ channel' = [channel EXCEPT ![live[S]] = "closed"]
  /\ conn' = [v \in Slots |->
                IF session[v].served = S /\ conn[v] = "open"
                  THEN "closed" ELSE conn[v]]
  /\ live' = Without(live, S)
  /\ UNCHANGED <<coreVars, mode, serverTransport, captured, toolCall, rpcId,
                 res, logged, session>>

NextSessions ==
  \/ Listen("sessions")
  \/ \E v \in Visits, header \in SessionHeaders : SessionPost(v, header)
  \/ \E v \in Visits, header \in SessionHeaders : SessionGet(v, header)
  \/ \E S \in Visits : SessionClose(S)

SpecSessions == Init /\ [][NextSessions]_vars

(***************************************************************************)
(* The life of a session.                                                  *)
(***************************************************************************)
\* request v arrives in this step
Arriving(v) == conn[v] = "none" /\ conn'[v] # "none"

\* this step registers a new session and does nothing else to the map
SessionCreation ==
  \E v \in Visits :
    /\ Arriving(v)
    /\ v \notin DOMAIN live
    /\ session'[v].served = v
    /\ live' = live @@ (v :> v)

\* this step closes the channel of a session and takes it off the map
SessionClosure ==
  \E S \in DOMAIN live :
    /\ channel'[live[S]] = "closed"
    /\ live' = Without(live, S)

C23_WitnessNewSession ==
  /\ session[1] = [method |-> "POST", presented |-> 0, served |-> 1]
  /\ channel[1] = "closed"
  /\ session[2] = [method |-> "POST", presented |-> 1, served |-> 2]
  /\ DOMAIN live = {2}

(***************************************************************************)
(* A read-side request without a session.                                  *)
(***************************************************************************)
\* request v is a GET that was not attached to a session
Unattached(v) == session[v].method = "GET" /\ session[v].served = 0

====
